--------------------------- MODULE RpcLoginProofs ---------------------------
(***************************************************************************)
(* Proofs about RpcLogin, for any number of clients and of pool threads    *)
(* and with every fault.  The race on InterfaceHandle is in the model: what *)
(* is proved is how far it can go.                                         *)
(***************************************************************************)
EXTENDS RpcLogin, TLAPS

\* InterfaceHandle only ever holds a token of a user whose password was right.
HandleIsVerified == handle \in good \cup {Nobody}

\* Calls past LogonUser, and commands, are those of verified clients.
Verified(k) ==
  \/ k.at \in {"impersonate", "command"}
  \/ k.at = "answer" /\ k.ok
WorkIsVerified == \A t \in Thread : Verified(thread[t]) => thread[t].by \in good

\* Until another login writes it, InterfaceHandle holds what this one wrote.
HandleIsOurs ==
  \A t \in Thread : thread[t].at = "impersonate" /\ ~disturbed[t] => handle = thread[t].by

\* The inductive invariant: the types, and what relates InterfaceHandle, the
\* threads, their tokens and the clients.
LoginInv ==
  /\ HandleIsVerified /\ WorkIsVerified /\ HandleIsOurs
  /\ OnlyVerifiedClientsEnter /\ TokensAreVerified
  /\ UndisturbedLoginIsItsOwn /\ RefusalHasACause

IInv == TypeOK /\ LoginInv

-----------------------------------------------------------------------------
(* Types.                                                                  *)

LEMMA InitTypes == Init => TypeOK
<1> SUFFICES ASSUME Init PROVE TypeOK
  OBVIOUS
<1>1. server \in ServerState /\ starts \in 1 .. MaxStarts
  BY LoginAssumption DEF Init, ServerState
<1>2. Free \in Work
  BY DEF Free, Work
<1>3. thread \in [Thread -> Work]
  BY <1>2 DEF Init
<1>4. client \in [Client -> ClientState]
  BY DEF Init, ClientState
<1>5. token \in [Thread -> Client \cup {Nobody}] /\ disturbed \in [Thread -> BOOLEAN]
  BY DEF Init
<1> QED
  BY <1>1, <1>3, <1>4, <1>5 DEF Init, TypeOK

\* What a call on a pool thread may become.
LEMMA MoveTypes ==
  ASSUME TypeOK, NEW t \in Thread, NEW at \in {"impersonate", "answer"}, NEW ok \in BOOLEAN, Move(t, at, ok)
  PROVE  thread' \in [Thread -> Work]
<1>1. thread \in [Thread -> Work]
  BY DEF TypeOK
<1>2. \A w \in Work : [w EXCEPT !.at = at, !.ok = ok] \in Work
  BY DEF Work
<1>3. thread' = [thread EXCEPT ![t] = [thread[t] EXCEPT !.at = at, !.ok = ok]]
  BY <1>1 DEF Move
<1> QED
  BY <1>1, <1>2, <1>3

LEMMA NextTypes == TypeOK /\ [Next]_vars => TypeOK'
<1> SUFFICES ASSUME TypeOK, [Next]_vars PROVE TypeOK'
  OBVIOUS
<1> USE DEF TypeOK
<1>1. CASE StartStep
  BY <1>1 DEF StartStep, ServerState
<1>2. CASE Crash
  <2>1. Free \in Work
    BY DEF Free, Work
  <2> QED
    BY <1>2, <2>1, LoginAssumption DEF Crash, ServerState, ClientState
<1>3. CASE Restart
  BY <1>3, LoginAssumption DEF Restart, ServerState
<1>4. ASSUME NEW c \in Client, Bind(c) PROVE TypeOK'
  BY <1>4 DEF Bind, ClientState
<1>5. ASSUME NEW c \in Client, Login(c) \/ Command(c) PROVE TypeOK'
  <2>1. thread' \in [Thread -> Work]
    <3>1. \A at \in {"logon", "command"} : [at |-> at, by |-> c, ok |-> FALSE] \in Work
      BY DEF Work
    <3>2. \/ UNCHANGED thread
          \/ \E t \in Thread, at \in {"logon", "command"} :
               thread' = [thread EXCEPT ![t] = [at |-> at, by |-> c, ok |-> FALSE]]
      BY <1>5 DEF Login, Command, Served, Unanswered
    <3> QED
      BY <3>1, <3>2
  <2>2. client' \in [Client -> ClientState]
    BY <1>5 DEF Login, Command, Served, Unanswered, ClientState
  <2> QED
    BY <1>5, <2>1, <2>2 DEF Login, Command
<1>6. ASSUME NEW c \in Client, Leave(c) PROVE TypeOK'
  BY <1>6 DEF Leave, ClientState
<1>7. ASSUME NEW t \in Thread, LogonUser(t) PROVE TypeOK'
  <2>1. thread' \in [Thread -> Work]
    BY <1>7, MoveTypes DEF LogonUser
  <2>2. handle' \in Client \cup {Nobody}
    BY <1>7 DEF LogonUser
  <2>3. disturbed' \in [Thread -> BOOLEAN]
    BY <1>7 DEF LogonUser, Disturb
  <2> QED
    BY <1>7, <2>1, <2>2, <2>3 DEF LogonUser
<1>8. ASSUME NEW t \in Thread, Impersonate(t) PROVE TypeOK'
  <2>1. thread' \in [Thread -> Work]
    BY <1>8, MoveTypes DEF Impersonate
  <2> QED
    BY <1>8, <2>1 DEF Impersonate
<1>9. ASSUME NEW t \in Thread, Answer(t) \/ Execute(t) PROVE TypeOK'
  <2>1. thread' \in [Thread -> Work]
    <3>1. Free \in Work
      BY DEF Free, Work
    <3> QED
      BY <1>9, <3>1 DEF Answer, Execute
  <2>2. client' \in [Client -> ClientState]
    BY <1>9 DEF Answer, Execute, ClientState
  <2> QED
    BY <1>9, <2>1, <2>2 DEF Answer, Execute
<1>10. CASE UNCHANGED vars
  BY <1>10 DEF vars
<1> QED
  BY <1>1, <1>2, <1>3, <1>4, <1>5, <1>6, <1>7, <1>8, <1>9, <1>10 DEF Next, Pool

-----------------------------------------------------------------------------
(* Logins.                                                                 *)

LEMMA InitLogins == Init => LoginInv
BY LoginAssumption DEF Init, LoginInv, HandleIsVerified, WorkIsVerified, Verified, HandleIsOurs,
  OnlyVerifiedClientsEnter, TokensAreVerified, UndisturbedLoginIsItsOwn, RefusalHasACause, Free

\* A step that leaves the handle, the tokens and the history alone, and that
\* only starts or ends calls, keeps what is said of calls in progress.
LEMMA OthersKeepLogins ==
  ASSUME TypeOK, LoginInv, UNCHANGED <<good, handle, token>>,
         \A t \in Thread :
           \/ thread'[t] = thread[t] /\ disturbed'[t] = disturbed[t]
           \/ thread'[t].at \in {"free", "logon"}
           \/ thread'[t].at = "command" /\ thread'[t].by \in good,
         \A c \in Client : client'[c] \in {"loop", "call"} => c \in good
  PROVE  LoginInv'
<1>1. HandleIsVerified' /\ TokensAreVerified' /\ OnlyVerifiedClientsEnter'
  BY DEF LoginInv, HandleIsVerified, TokensAreVerified, OnlyVerifiedClientsEnter
<1>2. WorkIsVerified'
  BY DEF LoginInv, WorkIsVerified, Verified
<1>3. HandleIsOurs'
  BY DEF LoginInv, HandleIsOurs
<1>4. UndisturbedLoginIsItsOwn' /\ RefusalHasACause'
  BY DEF LoginInv, UndisturbedLoginIsItsOwn, RefusalHasACause
<1> QED
  BY <1>1, <1>2, <1>3, <1>4 DEF LoginInv

\* LogonUser makes every login that is between its two calls a disturbed one,
\* except its own, which finds its own token.
LEMMA LogonKeepsLogins ==
  ASSUME TypeOK, LoginInv, NEW t \in Thread, LogonUser(t)
  PROVE  LoginInv'
<1>1. \A u \in Thread : /\ disturbed'[u] = IF u = t THEN FALSE ELSE disturbed[u] \/ thread[u].at = "impersonate"
                        /\ u # t => thread'[u] = thread[u]
  BY DEF LogonUser, Disturb, Move, TypeOK
<1>2. thread'[t].by = thread[t].by
  BY DEF LogonUser, Move, TypeOK, Work
<1>3. UNCHANGED <<good, token, client>>
  BY DEF LogonUser
<1>4. HandleIsVerified' /\ TokensAreVerified' /\ OnlyVerifiedClientsEnter'
  BY <1>3 DEF LogonUser, LoginInv, HandleIsVerified, TokensAreVerified, OnlyVerifiedClientsEnter
<1>5. CASE /\ thread[t].by \in good /\ handle' = thread[t].by
           /\ thread'[t].at = "impersonate"
  <2>1. WorkIsVerified'
    BY <1>1, <1>2, <1>3, <1>5 DEF LoginInv, WorkIsVerified, Verified
  <2>2. HandleIsOurs'
    BY <1>1, <1>2, <1>5 DEF HandleIsOurs
  <2>3. UndisturbedLoginIsItsOwn' /\ RefusalHasACause'
    BY <1>1, <1>3, <1>5 DEF LoginInv, UndisturbedLoginIsItsOwn, RefusalHasACause
  <2> QED
    BY <1>4, <2>1, <2>2, <2>3 DEF LoginInv
<1>6. CASE /\ thread[t].by \notin good
           /\ thread'[t].at = "answer" /\ ~thread'[t].ok
  <2>1. WorkIsVerified'
    BY <1>1, <1>2, <1>3, <1>6 DEF LoginInv, WorkIsVerified, Verified
  <2>2. HandleIsOurs'
    BY <1>1, <1>6 DEF HandleIsOurs
  <2>3. UndisturbedLoginIsItsOwn' /\ RefusalHasACause'
    BY <1>1, <1>2, <1>3, <1>6 DEF LoginInv, UndisturbedLoginIsItsOwn, RefusalHasACause
  <2> QED
    BY <1>4, <2>1, <2>2, <2>3 DEF LoginInv
<1> QED
  BY <1>5, <1>6 DEF LogonUser, Move, TypeOK, Work

\* ImpersonateLoggedOnUser fails only when the handle is gone, which a login of
\* a verified client finds only if it was disturbed.
LEMMA ImpersonateKeepsLogins ==
  ASSUME TypeOK, LoginInv, NEW t \in Thread, Impersonate(t)
  PROVE  LoginInv'
<1>1. /\ UNCHANGED <<good, handle, client, disturbed>>
      /\ \A u \in Thread : u # t => thread'[u] = thread[u] /\ token'[u] = token[u]
  BY DEF Impersonate, Move, TypeOK
<1>2. thread'[t].by = thread[t].by /\ thread'[t].at = "answer"
  BY DEF Impersonate, Move, TypeOK, Work
<1>3. thread[t].by \in good /\ (~disturbed[t] => handle = thread[t].by)
  BY DEF Impersonate, LoginInv, WorkIsVerified, Verified, HandleIsOurs
<1>4. \/ handle # Nobody /\ token'[t] = handle /\ thread'[t].ok
      \/ handle = Nobody /\ token'[t] = token[t] /\ ~thread'[t].ok
  BY DEF Impersonate, Move, TypeOK, Work
<1>5. Nobody \notin good
  BY LoginAssumption DEF TypeOK
<1>6. HandleIsVerified' /\ OnlyVerifiedClientsEnter' /\ TokensAreVerified'
  BY <1>1, <1>4 DEF LoginInv, HandleIsVerified, OnlyVerifiedClientsEnter, TokensAreVerified
<1>7. WorkIsVerified' /\ HandleIsOurs'
  BY <1>1, <1>2, <1>3 DEF LoginInv, WorkIsVerified, Verified, HandleIsOurs
<1>8. UndisturbedLoginIsItsOwn' /\ RefusalHasACause'
  BY <1>1, <1>2, <1>3, <1>4, <1>5 DEF LoginInv, UndisturbedLoginIsItsOwn, RefusalHasACause
<1> QED
  BY <1>6, <1>7, <1>8 DEF LoginInv

\* Every step keeps what is said of logins.
LEMMA NextLogins == TypeOK /\ LoginInv /\ [Next]_vars => LoginInv'
<1> SUFFICES ASSUME TypeOK, LoginInv, [Next]_vars PROVE LoginInv'
  OBVIOUS
<1>0. OnlyVerifiedClientsEnter /\ WorkIsVerified
  BY DEF LoginInv
<1>1. CASE StartStep \/ Restart \/ UNCHANGED vars
  <2>1. UNCHANGED <<good, handle, thread, token, client, disturbed>>
    BY <1>1 DEF StartStep, Restart, vars
  <2> QED
    BY <1>0, <2>1, OthersKeepLogins DEF OnlyVerifiedClientsEnter
<1>2. CASE Crash
  BY <1>2, LoginAssumption DEF Crash, Free, TypeOK, LoginInv, HandleIsVerified, WorkIsVerified, Verified, HandleIsOurs,
    OnlyVerifiedClientsEnter, TokensAreVerified, UndisturbedLoginIsItsOwn, RefusalHasACause
<1>3. ASSUME NEW c \in Client, Bind(c) \/ Leave(c) PROVE LoginInv'
  <2>1. UNCHANGED <<good, handle, thread, token, disturbed>>
    BY <1>3 DEF Bind, Leave
  <2>2. \A d \in Client : client'[d] \in {"loop", "call"} => client[d] \in {"loop", "call"}
    BY <1>3 DEF Bind, Leave, TypeOK
  <2> QED
    BY <1>0, <2>1, <2>2, OthersKeepLogins DEF OnlyVerifiedClientsEnter
<1>4. ASSUME NEW c \in Client, Login(c) \/ Command(c) PROVE LoginInv'
  <2>1. UNCHANGED <<good, handle, token, disturbed>>
    BY <1>4 DEF Login, Command
  <2>2. \A d \in Client : client'[d] \in {"loop", "call"} => client[d] \in {"loop", "call"}
    BY <1>4 DEF Login, Command, Served, Unanswered, TypeOK
  <2>3. \A t \in Thread : \/ thread'[t] = thread[t]
                          \/ thread'[t].at = "logon"
                          \/ thread'[t].at = "command" /\ thread'[t].by \in good
    BY <1>0, <1>4 DEF Login, Command, Served, Unanswered, TypeOK, OnlyVerifiedClientsEnter
  <2> QED
    BY <1>0, <2>1, <2>2, <2>3, OthersKeepLogins DEF OnlyVerifiedClientsEnter
<1>5. ASSUME NEW t \in Thread, LogonUser(t) PROVE LoginInv'
  BY <1>5, LogonKeepsLogins
<1>6. ASSUME NEW t \in Thread, Impersonate(t) PROVE LoginInv'
  BY <1>6, ImpersonateKeepsLogins
<1>7. ASSUME NEW t \in Thread, Answer(t) \/ Execute(t) PROVE LoginInv'
  <2>1. UNCHANGED <<good, handle, token>>
    BY <1>7 DEF Answer, Execute
  <2>2. \A u \in Thread : \/ thread'[u] = thread[u] /\ disturbed'[u] = disturbed[u]
                          \/ thread'[u].at = "free"
    BY <1>7 DEF Answer, Execute, Free, TypeOK
  <2>3. \A c \in Client : client'[c] = client[c] \/ client'[c] = "failed" \/ c \in good
    BY <1>0, <1>7 DEF Answer, Execute, WorkIsVerified, Verified, TypeOK
  <2> QED
    BY <1>0, <2>1, <2>2, <2>3, OthersKeepLogins DEF OnlyVerifiedClientsEnter
<1> QED
  BY <1>1, <1>2, <1>3, <1>4, <1>5, <1>6, <1>7 DEF Next, Pool

-----------------------------------------------------------------------------
(* Theorems.                                                               *)

LEMMA Inductive == Spec => []IInv
<1>1. Init => IInv
  BY InitTypes, InitLogins DEF IInv
<1>2. IInv /\ [Next]_vars => IInv'
  BY NextTypes, NextLogins DEF IInv
<1> QED
  BY <1>1, <1>2, PTL DEF Spec

\* Every variable keeps its type, however the pool's threads interleave.
THEOREM TypeCorrect == Spec => []TypeOK
<1>1. IInv => TypeOK
  BY DEF IInv
<1> QED
  BY <1>1, Inductive, PTL

\* No client reaches the command loop on another's login, although one global
\* handle serves all logins.
THEOREM NoUnverifiedClient == Spec => []OnlyVerifiedClientsEnter
<1>1. IInv => OnlyVerifiedClientsEnter
  BY DEF IInv, LoginInv
<1> QED
  BY <1>1, Inductive, PTL

\* No pool thread ever runs as a user whose password was not right.
THEOREM NoUnverifiedToken == Spec => []TokensAreVerified
<1>1. IInv => TokensAreVerified
  BY DEF IInv, LoginInv
<1> QED
  BY <1>1, Inductive, PTL

\* A login that no other came between runs as its own user.
THEOREM OwnToken == Spec => []UndisturbedLoginIsItsOwn
<1>1. IInv => UndisturbedLoginIsItsOwn
  BY DEF IInv, LoginInv
<1> QED
  BY <1>1, Inductive, PTL

\* A login fails for a wrong password or because another came between.
THEOREM NoCauselessRefusal == Spec => []RefusalHasACause
<1>1. IInv => RefusalHasACause
  BY DEF IInv, LoginInv
<1> QED
  BY <1>1, Inductive, PTL

=============================================================================
