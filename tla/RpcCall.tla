------------------------------- MODULE RpcCall -------------------------------
(***************************************************************************)
(* One remote call, from the arguments on the caller's stack to the answer *)
(* in the caller's buffer, through the generated stubs of both sides.      *)
(* NdrClientCall2 and NdrServerCall2 belong to the RPC runtime: they walk  *)
(* the tables of FileStubs and InfoStubs one parameter at a time and do    *)
(* what the entry says; they are modelled from the entries they are given. *)
(*                                                                         *)
(* Both systems of the repository register the same interface UUID and     *)
(* version, so the runtime also connects a client of one to the server of  *)
(* the other; only the tables stand between them.                          *)
(***************************************************************************)
EXTENDS FileStubs, InfoStubs

CONSTANTS
  Pairs,     \* which client is connected to which server
  Texts,     \* the strings passed as arguments
  Sizes,     \* the buffer sizes passed as arguments
  Bytes,     \* what a buffer may hold
  Results    \* what a routine may return

\* The pair <<"file", "info">> is left out: there a number is read from the
\* head of a string, and what follows depends on the length of the string.
ASSUME CallAssumption ==
  /\ Pairs \subseteq {<<"file", "file">>, <<"info", "info">>, <<"info", "file">>}
  /\ Sizes \subseteq Nat
  /\ Results \subseteq Nat

VARIABLES
  cl, sv,    \* whose client, whose server
  pc,        \* where the call is
  routine,   \* the routine the caller called
  frame,     \* the caller's arguments: frame offset -> argument
  msg,       \* the message on the wire: procedure number and items
  k,         \* the parameter the runtime has come to
  sframe,    \* the server routine's arguments
  produced,  \* what the server routine left: return value and buffer
  got        \* what the caller found: return value and buffer

vars == <<cl, sv, pc, routine, frame, msg, k, sframe, produced, got>>

-----------------------------------------------------------------------------

ClientStub == IF cl = "file" THEN FileClient ELSE InfoClient
ServerStub == IF sv = "file" THEN FileServerStub ELSE InfoServerStub
Prototypes(side) == IF side = "file" THEN FilePrototypes ELSE InfoPrototypes
Returns(side) == IF side = "file" THEN FileReturns ELSE InfoReturns

Nothing == [ret |-> 0, out |-> <<>>]
Arg(kind, v) == [kind |-> kind, v |-> v]

Offset(i) == 4 * (i - 1)

\* The frames a program builds for a routine: the buffer is as long as the
\* size says (client.h of both clients).
Frames(proto, t, b, n) ==
  LET Value(i) == CASE proto[i] = "text"  -> Arg("text", t[i])
                    [] proto[i] = "size"  -> Arg("long", n)
                    [] proto[i] = "bytes" -> Arg("bytes", [j \in 1..n |-> b])
                    [] proto[i] = "room"  -> Arg("room", n)
  IN  [at \in {Offset(i) : i \in DOMAIN proto} |-> Value(at \div 4 + 1)]

\* A frame slot nobody has filled yet is zero.
Number(f, at) == IF at \in DOMAIN f THEN f[at].v ELSE 0

ClientProc == ClientStub.format[ClientStub.calls[routine]]
Routine    == ServerStub.routines[msg.num + 1]
ServerProc == ServerStub.format[ServerStub.offsets[msg.num + 1]]

\* The kind of message item a parameter travels as.
ItemKind(p) == CASE p.type = NoType -> "long"
                 [] p.type = TextType -> "text"
                 [] p.type = ArrayType -> "bytes"

\* Go on to the next parameter of proc, after the last one to `next`.
Step(proc, next) ==
  IF k = Len(proc.params) THEN pc' = next /\ k' = 1 ELSE k' = k + 1 /\ UNCHANGED pc

Fault == pc' = "fault" /\ k' = 1

-----------------------------------------------------------------------------

Init ==
  /\ \E p \in Pairs : cl = p[1] /\ sv = p[2]
  /\ pc = "idle" /\ k = 1
  /\ routine = "serv_login"
  /\ frame = <<>> /\ sframe = <<>>
  /\ msg = [num |-> 0, body |-> <<>>]
  /\ produced = Nothing /\ got = Nothing

\* The program calls a stub routine of AppInterface_c.c.
Call(r) ==
  /\ pc = "idle"
  /\ routine' = r
  /\ \E n \in Sizes, b \in Bytes, t \in [DOMAIN Prototypes(cl)[r] -> Texts] :
       frame' = Frames(Prototypes(cl)[r], t, b, n)
  /\ msg' = [num |-> ClientStub.format[ClientStub.calls[r]].num, body |-> <<>>]
  /\ pc' = "put" /\ k' = 1
  /\ sframe' = <<>> /\ produced' = Nothing /\ got' = Nothing
  /\ UNCHANGED <<cl, sv>>

\* NdrClientCall2 packs the [in] parameters.
PutIn ==
  LET p == ClientProc.params[k]
      v == IF p.type = ArrayType
           THEN SubSeq(frame[p.at].v, 1, Number(frame, ClientStub.types.array))
           ELSE frame[p.at].v
  IN  /\ pc = "put"
      /\ IF p.dir = "in" THEN msg' = [msg EXCEPT !.body = Append(@, Arg(ItemKind(p), v))]
                         ELSE UNCHANGED msg
      /\ Step(ClientProc, "dispatch")
      /\ UNCHANGED <<cl, sv, routine, frame, sframe, produced, got>>

\* The runtime looks the procedure number up in the dispatch table.
Dispatch ==
  /\ pc = "dispatch"
  /\ IF msg.num < ServerStub.count THEN pc' = "take" /\ UNCHANGED k ELSE Fault
  /\ UNCHANGED <<cl, sv, routine, frame, msg, sframe, produced, got>>

\* NdrServerCall2 unpacks the [in] parameters into the routine's frame.
TakeIn ==
  LET p == ServerProc.params[k] IN
  /\ pc = "take"
  /\ \/ /\ p.dir # "in"
        /\ Step(ServerProc, "alloc")
        /\ UNCHANGED <<msg, sframe>>
     \/ /\ p.dir = "in"
        /\ msg.body # <<>> /\ Head(msg.body).kind = ItemKind(p)
        /\ sframe' = [at \in DOMAIN sframe \cup {p.at} |-> IF at = p.at THEN Head(msg.body) ELSE sframe[at]]
        /\ msg' = [msg EXCEPT !.body = Tail(@)]
        /\ Step(ServerProc, "alloc")
     \/ /\ p.dir = "in"
        /\ msg.body = <<>> \/ Head(msg.body).kind # ItemKind(p)
        /\ Fault
        /\ UNCHANGED <<msg, sframe>>
  /\ UNCHANGED <<cl, sv, routine, frame, produced, got>>

\* It checks that an array that came is as long as the argument that gives its
\* length, and allocates the [out] buffers.
Alloc ==
  LET size == Number(sframe, ServerStub.types.array)
      Arrays(d) == {p \in {ServerProc.params[i] : i \in DOMAIN ServerProc.params} :
                      p.dir = d /\ p.type = ArrayType}
      rooms == {p.at : p \in Arrays("out")}
  IN  /\ pc = "alloc"
      /\ IF \A p \in Arrays("in") : Len(sframe[p.at].v) = size
         THEN /\ sframe' = [at \in DOMAIN sframe \cup rooms |->
                            IF at \in rooms THEN Arg("room", size) ELSE sframe[at]]
              /\ pc' = "run" /\ UNCHANGED k
         ELSE Fault /\ UNCHANGED sframe
      /\ UNCHANGED <<cl, sv, routine, frame, msg, produced, got>>

\* The routine runs.  It finds each argument where its C prototype says, may
\* fill the buffer it was given and, unless it is void, returns a value.
Run ==
  LET proto == Prototypes(sv)[Routine]
      room  == {i \in DOMAIN proto : proto[i] = "room"}
      size  == IF room = {} THEN 0 ELSE sframe[Offset(CHOOSE i \in room : TRUE)].v
  IN  /\ pc = "run"
      /\ \E r \in (IF Routine \in Returns(sv) THEN Results ELSE {0}), out \in [1..size -> Bytes] :
           produced' = [ret |-> r, out |-> out]
      /\ msg' = [msg EXCEPT !.body = <<>>]
      /\ pc' = "reply" /\ UNCHANGED k
      /\ UNCHANGED <<cl, sv, routine, frame, sframe, got>>

\* NdrServerCall2 packs the [out] parameters and the return value.
PutOut ==
  LET p == ServerProc.params[k]
      item == IF p.dir = "out" THEN Arg("bytes", produced.out) ELSE Arg("long", produced.ret)
  IN  /\ pc = "reply"
      /\ IF p.dir = "in" THEN UNCHANGED msg
                         ELSE msg' = [msg EXCEPT !.body = Append(@, item)]
      /\ Step(ServerProc, "fetch")
      /\ UNCHANGED <<cl, sv, routine, frame, sframe, produced, got>>

\* NdrClientCall2 unpacks them; an array must be as long as the caller's own
\* size argument says.
TakeOut ==
  LET p == ClientProc.params[k]
      item == Head(msg.body)
      fits == /\ msg.body # <<>>
              /\ item.kind = ItemKind(p)
              /\ p.type = ArrayType =>
                   Len(item.v) = Number(frame, ClientStub.types.array)
  IN  /\ pc = "fetch"
      /\ \/ /\ p.dir = "in"
            /\ Step(ClientProc, "done")
            /\ UNCHANGED <<msg, got>>
         \/ /\ p.dir # "in" /\ fits
            /\ got' = IF p.dir = "out" THEN [got EXCEPT !.out = item.v]
                                       ELSE [got EXCEPT !.ret = item.v]
            /\ msg' = [msg EXCEPT !.body = Tail(@)]
            /\ Step(ClientProc, "done")
         \/ /\ p.dir # "in" /\ ~fits
            /\ Fault
            /\ UNCHANGED <<msg, got>>
      /\ UNCHANGED <<cl, sv, routine, frame, sframe, produced>>

\* The call returns.  After a fault the runtime raises an exception that no
\* client catches: the program ends, and is started again.
Return_ ==
  /\ pc \in {"done", "fault"}
  /\ pc' = "idle"
  /\ UNCHANGED <<cl, sv, routine, frame, msg, k, sframe, produced, got>>

Runtime == PutIn \/ Dispatch \/ TakeIn \/ Alloc \/ PutOut \/ TakeOut
Next == Runtime \/ Run \/ Return_ \/ \E r \in DOMAIN Prototypes(cl) : Call(r)

Spec == Init /\ [][Next]_vars

-----------------------------------------------------------------------------
(* Properties.                                                             *)

\* Between a client and the server of its own system the runtime never finds
\* a message it cannot unpack, and the server runs the routine the caller
\* called, with the caller's arguments, each where the routine looks for it,
\* and with a buffer exactly as long as the caller's: the two copies of the
\* tables, generated apart and compiled into different programs, agree with
\* each other and with the C prototypes.
RightRoutine ==
  cl = sv => pc # "fault" /\ (pc = "run" => Routine = routine /\ sframe = frame)

\* What the routine returned and wrote is what the caller finds in its
\* variable and in its buffer.
ReplyReachesCaller == pc = "done" => got = produced

\* A client of the information server that was given the address of a file
\* server by mistake passes the check of the interface's UUID; of its calls
\* only serv_login, which is the same in both, reaches a routine: none of
\* them removes, overwrites or reads a file.
StrangersOnlyLogIn == pc = "run" /\ cl # sv => Routine = routine /\ Routine = "serv_login"

=============================================================================
