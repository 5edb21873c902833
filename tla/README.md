# Verification of SPBPU-bsit-labs

## The system

The repository holds three client/server pairs written for a course on the security of
operating systems. They share no code at run time.

* **Lab 01** (`src/Lab 01/Src`). A Windows information service. The *server* (`Server1/Server.cpp`) is
  one thread around an I/O completion port: `exec` takes completion packets and dispatches on the
  completion key (an index of the table `g_ctxs`) and on the address of the `OVERLAPPED`. Entry 0 is
  the listening socket. A connection goes through key exchange (the client sends its public RSA key
  after a 0 byte, the server answers with an RC4 session key) and then through encrypted requests
  1..8 and replies. The *client* (`Client1`) is a sequential console program.
* **Lab 01 - dop**. The same requests as Microsoft RPC calls, after `serv_login`. The routines are
  copies of the Lab 01 handlers with a loop that puts the length of the text in front of it.
* **Lab 02**. An RPC file server: login, remove, size, download, upload, with a console client.

The two RPC systems register the same interface UUID and version with different procedures. Each program
is compiled with its own generated stub file.

### Inventory

| component | state | operations | interacts through |
|---|---|---|---|
| completion-port loop and connections (Lab 01 server) | `g_ctxs`, `g_accepted_socket`, keys in the CSP | `exec`, `add_accepted_connection`, `schedule_accept/read/write`, three overlap handlers, `form_answ_key`, `msg_handler` | port, sockets |
| request handlers (Lab 01 server, dop server) | none | eight handlers computing a text | `buf_send` or an RPC out parameter |
| Lab 01 client | socket, key, buffers, request type | `try_connect`, `request_formation`, `send_request`, `recv_request`, `set_key`, `decrypt_msg`, dialog | TCP |
| RPC login (dop, Lab 02 servers) | global `InterfaceHandle`, the impersonation of each pool thread | `serv_login` | RPC threads share the process |
| information client (dop) | line, tokens, the reply buffer | `cmd_loop`, `split`, handlers, `print_response` | RPC |
| file service (Lab 02 server) | the file system | remove, download, upload, size | RPC threads |
| file client (Lab 02) | local files, tokens | `cmd_loop`, `split`, transfers | RPC |
| MIDL stubs (four files) | tables only | one routine per procedure | the RPC runtime |
| build trees | - | - | not modelled |

### Behaviours that are hard, and what makes each component correct

* **Completion-port loop.** The thread runs one handler at a time, but the kernel works on the buffers
  and `OVERLAPPED`s of `g_ctxs` meanwhile and the port is a queue, so completions wait behind each
  other. A connection is known only by its index, and indices are reused. Correct means: an entry has
  one user at a time; no completion reaches another client than the one it was started for; sockets
  are owned by exactly one place; a freed entry is blank; every entry has something under way that
  wakes the server up; the counters of the buffers are right from one message to the next.
* **Client and protocol.** TCP keeps no message boundaries, and either end may go away at any step.
  Correct means: the two programs agree on where a message ends and whether it is a key; what is
  printed is the reply to the request just made; the two never wait for each other.
* **RPC logins.** RPC runs calls on a pool of threads. A login writes a global handle and impersonates
  on the thread it happens to run on. Correct means: a call runs with the rights of its own client.
* **File service.** Transfers are several calls (size, then content) with other clients' calls between
  them. Correct means: what is downloaded is one content the file really had, and an upload that
  reports success leaves the uploaded content.
* **Request handlers, command loop, `split`.** Sequential computations with limits: 32-bit uptime,
  indices of tables, lengths of buffers. The list of drives is read once and each drive later, and a
  drive may come or go between.
* **Stubs.** Client and server each hold a copy of every table. Correct means: a call reaches the routine
  of its name with each argument in its place, and the answer reaches the caller's buffer.

## Modules

| module | models |
|---|---|
| `IocpServer`, `MCIocpServer` | the Lab 01 server (`Server.cpp` 1-372), with kernel and clients as its environment |
| `IocpServerProofs` | who uses an entry: inductive invariant and five theorems |
| `IocpStreamProofs` | what passes through an entry: a second inductive invariant and four theorems |
| `Session`, `MCSession` | the Lab 01 client program and the server's side of its connection |
| `SessionProofs` | two inductive invariants and four theorems |
| `NdrFormat`, `FileStubs`, `InfoStubs` | the tables of the four generated stub files |
| `RpcCall`, `MCRpcCall` | one call of either interface through those tables |
| `RpcCallProofs` | what has to be true of two copies of a table, inductive invariant and three theorems |
| `RpcLogin` | start and death of an RPC server, `serv_login` on pool threads, the clients' `main` |
| `RpcLoginProofs` | inductive invariant and five theorems |
| `FileServer` | `rm`, `down` and `up` of the Lab 02 client, with the server's routines piece by piece |
| `FileServerProofs` | inductive invariant and four theorems |
| `AtomicFiles` | abstract: each of these commands is one step; what `FileServer` implements |
| `FileAtomicProofs` | that it does: the simulation, step by step |
| `SystemInfo` | the texts of the eight request handlers, as functions |
| `InfoService`, `MCInfoService` | the dop client at its prompt and the routines it calls |
| `InfoServiceProofs` | what the loops compute, inductive invariant and six theorems |

`Session` composes the Lab 01 client with one connection of the server; `RpcCall` composes both stub files
of a system; `InfoService` composes client, framing and the functions of `SystemInfo`; `FileServer`
composes clients and server and implements `AtomicFiles`.

Left to do: theorems that compose modules. That one entry of `IocpServer`, with its client, takes the steps of the
server's side of `Session` is argued below and not proved.

### IocpServer: state and actions

`exec` is one thread, so one turn of its loop, a whole handler, is one step.

| code | model |
|---|---|
| `g_ctxs[0..max_clients]` | `ctx`, a function of records; entry 0 is the listening socket |
| `socket`, `sz_recv`, `sz_send`, `sz_send_total`, `key`, `buf_recv` | fields of the record; of `buf_recv` what the handlers tell apart (does it begin with 0, is it what the branch expects); `buf_send` by its lengths |
| `g_accepted_socket` | `acceptedSocket` |
| the CSP's keys of this process | `keysLive` |
| an `assert`, of which one (369) fails for a reply longer than `BufLen`; the crash on an unreadable path | `Abort`, `PathUnreadable`: `alive' = FALSE`; after it nothing happens |
| `g_io_port`, started operations, sockets | `port` (a FIFO queue), `ops`, `open`, `link` |
| `exec`: a failed packet or a timeout (`continue`) | `ExecFailed` |
| `exec`, entry 0: `add_accepted_connection` then `schedule_accept` | `ExecAccept`: `StoreConnection` or `RefuseConnection` |
| `overlap_recv_handler` | `ExecDisconnect` (0 bytes), `ExecRecv` (with `form_answ_key` or `msg_handler`, and `schedule_write`) |
| `overlap_send_handler`, `overlap_cancel_handler` | `ExecSend`, `ExecCancel` |
| the kernel completing AcceptEx, WSARecv, WSASend | `CompleteAccept`, `CompleteRecv`, `CompleteSend` |
| clients | `Connect`, `ClientSend`, `ClientClose`, `ClientReset` |

The `sock` of operations and packets is history: the program does not see it and no guard reads
it on the program's behalf; it lets `NoStaleCompletion` say for whom a packet was meant.
Arithmetic on lengths is modulo `Word`, as `unsigned` is. `Word` need only be larger than a buffer
for a wrapped length to be told from a right one.

### Session: state and actions

The control point of the client's `main` is `pc`; one step is one call that can block, with the
computation before the next one. A message is a sequence of pieces that know their message; the
streams `c2s` and `s2c` are sequences of pieces, and `recv`, `WSARecv` and `WSASend` move some of them
from the head. The server's side is the entry of one client: `srv`, `hasKey`, `got` (what `buf_recv` holds), `out`. One step of
`Session` (`Receive`) stands for a completion and its handler in `IocpServer`.
That module shows that nothing of another client comes between the two and that the entry is not
disturbed; the exception is an assert of another connection, which is `Death`.

| code | model |
|---|---|
| `try_connect` | `ConnectFails`, `Connects` |
| `request_formation` and `send_request`, for the key and for requests | `SendKey`, `Ask` |
| `ask_request_type` with 9 | `Exit` |
| `recv_request` then `set_key` / `decrypt_msg` | `RecvKey` / `RecvReply`; with the connection lost, `RecvLost` |
| `overlap_recv_handler`, `form_answ_key`, `msg_handler` | `Receive` and operators of the same names |
| an `assert` of the two; `owner_handler` and `access_right_handler` on an address never set | `Abort`, `Crash` |
| `overlap_send_handler` | `Send` |
| `add_accepted_connection`, `overlap_cancel_handler` | `Accept`, `Disconnect` |

### RpcCall: state and actions

The stub files are data: procedure formats, type formats, offset tables, dispatch and routine tables, and
the offsets the client routines pass to `NdrClientCall2`. A format table is a function from the offset of an entry
to the entry, as the offset tables use it. `RpcCall` interprets them the way the runtime
does, a parameter at a time. The runtime is not in the repository and is external.

| code | model |
|---|---|
| a routine of `AppInterface_c.c` | `Call` and `Return_` |
| `NdrClientCall2` packing and unpacking | `PutIn`, `TakeOut` |
| dispatch table | `Dispatch` |
| `NdrServerCall2` | `TakeIn`, `Alloc`, `PutOut` |
| a routine of `server.cpp` | `Run`: reads its frame where the C prototype says |
| `RpcRaiseException` | `Fault` |

### RpcLogin: state and actions

| code | model |
|---|---|
| `InterfaceHandle` of the server | `handle`, the user its token is for |
| a thread of the pool and its impersonation | `thread`, `token` |
| constructor and `listen` | `StartStep`, each call in order, each with its `assert` |
| constructor of `Client`, `authentification`, `cmd_loop` | `Bind`, `Login`, `Command`, `Leave` |
| `LogonUser(..., &InterfaceHandle)` | `LogonUser` |
| `ImpersonateLoggedOnUser(InterfaceHandle)` | `Impersonate` |
| return of `serv_login` | `Answer` |
| any other routine | `Execute` |

`LogonUser` and `ImpersonateLoggedOnUser` are two steps because nothing keeps another thread out between
them. `disturbed` is history: it says that this happened to a login.

### FileServer: state and actions

A byte is a pair of its maker and its position, so that mixing and shifting show. A command is the control
point `call[c].at`; a stream's `read` or `write` takes any number of steps.

| code | model |
|---|---|
| `serv_remove` | `Remove` |
| `Handler::download`: size, room, content, local file | `Down`, `Size`, `Download`, `Read`, `ReadEnd`, `Save` |
| `Handler::upload`: size and content, then `serv_upload` | `Up`, `Upload`, `Write`, `WriteEnd` |
| `ret != 0` in `cmd_loop`; an exception | `Complain`; `Unserved` and the state `died` |
| the server's death | `Crash`, `Restart` |

The constant `Exclusive` says whether clients may name the same path at the same time. `hurt` and `was` are
history. `Before` is the refinement mapping: a file that is being uploaded counts as the old file until
the upload ends or is cut short. A cut upload is the abstract step `Tear`.

### SystemInfo and InfoService: state and actions

A byte of a text says what it belongs to, which value and which place in it, so the texts have their real lengths
without their letters. `Framed` is the loop at the end of every routine; it works on the buffer in place and is the same
eight times. `buffer_size` is not looked at by any routine: a text with `Overrun` goes on into the memory behind the
buffer. The client receives `BufSize` bytes, and what it prints past them is foreign. `Interpret` is one turn of
`cmd_loop` up to the call; the routines with a loop over drives take a step per drive, since `Replug` may come between.

| code | model |
|---|---|
| `getline`, `split` | `ReadLine`, `split` |
| the branches of `cmd_loop`, `wrong_args` | `Interpret`, `wrong_args` |
| `GetLogicalDrives`, the loops, the end of the routine | `GetLogicalDrives`, `serv_disks_types` and `serv_free_space` for a drive, `DrivesDone` |
| the other routines | actions of the same names |
| `print_response` | `print_response`, `Printed` |

## Runs

| run | instance | shows |
|---|---|---|
| `iocp_table` | 3 clients, 2 usable entries, two messages each, resets, failing `CreateIoCompletionPort` | `OneOutstanding`, `NoStaleCompletion`, `SocketsAccounted`, `FreeEntriesAreBlank` while connections overlap, entries are reused and clients refused |
| `iocp_stream` | 1 client, 4 receives of any content, replies of 0, 2, 4 or 5 bytes for a 4-byte buffer, every partial send | `TypeOK`, `SendStaysInBuffer`, `DisconnectIsReal` over a conversation |
| `iocp_live` | 2 clients, 1 usable entry, no faults | `NoOrphan`, `AcceptArmed`; under fairness `ClosedClientsAreReleased`, `NoClientWaitsForever`, `SentIsReceived` |
| `session_whole` | whole messages, refusal and server death at any step, requests like a key, unreadable paths, replies too long, 3 requests | `PrintedIsTheReply`, `RequestsAreAnswered`, `TypeOK` |
| `session_pieces` | messages of 1-2 pieces cut and merged in every way, all of the above | `AssertionsHold`, `NoMutualWait`, `WaitingEnds` |
| `rpc_calls` | all 14 procedures, all frames with two texts and buffers of 0-2 bytes, both systems and a client of one at the server of the other | `RightRoutine`, `ReplyReachesCaller`, `StrangersOnlyLogIn` |
| `rpc_login` | 3 clients, 2 pool threads, 2 starts of the server, all faults | `OnlyVerifiedClientsEnter`, `TokensAreVerified`, `UndisturbedLoginIsItsOwn`, `RefusalHasACause`, `TypeOK`; under fairness `LoginsAreAnswered` |
| `file_shared` | 2 clients, 1 path, files of 2 bytes, full disk | `BytesKeepTheirPlace`, `CleanUploadGrows`, `CleanDownloadIsExact`, `TypeOK`; under fairness `CommandsEnd` |
| `file_exclusive` | 2 clients, 2 paths, files of 2, 4 and 7 bytes with an `int` of 6 values, all faults | `CommandsAreAtomic`: `FileServer` implements `AtomicFiles` |
| `info_service` | all lines of up to 4 tokens and blanks, 3 drive letters, one change of a drive during a call | `PrintedIsTheText`, `SplitFindsWords`, `ReportCoversTheMask`, `RowsShowTheLastFileSystem`, `FreeSpaceEndsAtAShortNumber`, `UptimeAddsUp` |
| `iocp_timeout`, `info_types` | smallest instance with the case | counterexamples, below |

**Bounds.** Two usable entries and three clients give every way of two connections overlapping and of a
third following one of them on the same entry; the invariants relate at most two entries, two packets
or an entry and its predecessor. `Socket` has as many handles as entries that can be in use plus the
accepted one, and a handle is free again after `closesocket`, so handles are reused as well and
`schedule_accept` never lacks one. `MaxChunks` bounds what a client sends: two messages (key, request) reach every
handler, four let leftovers of one message disturb the one after the next. `BufLen` 4 with replies of 0,
2, 4 and 5 has the empty, the partial, the full and the overfull one. `Word` is 8, above every length and so small
that a wrapped one shows. In `Session` two pieces are enough for
a message to be cut, three requests for the answer to one to be shown after another. `SendRoom` is 2
pieces and replies have up to 3, so that each reply may or may not have room. In the safety runs of `IocpServer` sockets and connections are symmetric; runs with liveness use
no symmetry. Deadlock is not checked there: a client may close for good, and after the last
client nothing is left to do.

In `RpcLogin` two threads are enough for one login to overtake another, and the third client is one
that has to wait for a thread. In `FileServer` two clients on one path give every overlap of two
transfers and of a transfer with a removal; the clients' local files and the server's differ in their bytes, and
two bytes are enough for a transfer to be caught half way. For
`CommandsAreAtomic` the `int` has 6 values, so that lengths 2, 4 and 7 are one that fits, one that turns
negative and one that wraps to a smaller number. `InfoService` has the real lengths of texts. Its buffer is scaled
with the drives: with 120 bytes instead of 256 a report of three drives may have room or not, and the memory
status never has, as with 256. `Letters` is 3 instead of 26, enough for a drive before and one after the one
that changes; `Word` is 16384 ticks of a second for 2^32 of a millisecond, above one hour. One
client is enough: nothing is shared between calls. Deadlock is not checked in `rpc_login` and
`info_service`, where all clients may have ended; it is in `rpc_calls` and in both runs of `FileServer`.

**Fairness.** `IocpServer`: the loop of `exec` is `while (true)` over a blocking call, so it takes packets
for ever; the kernel completes an accept, a receive or a send that can complete. Nothing is assumed of
the clients, who may stop at any step, and there is no fairness for faults. `Session`: weak fairness of the
client's sending of its key, of its return from `recv` when there is something to return, and of
the server's loop. None for the user at the dialog, for `connect`, or for `Death`. With an empty stream
and a live server `Recv` is not enabled, so fairness does not hide a wait. `RpcLogin`: the threads of
the pool run (weak fairness of each), a client that has started goes on to its login (weak fairness of
`Bind`), and a call that finds all threads busy is taken in the end (strong fairness of `Login`, since other calls
may take the threads between; the runtime queues calls in order). None for commands, crashes or restarts.
`FileServer`: the code of a command that was given keeps running; none for giving commands, for `Again` or
for `Restart`. `InfoService` and `RpcCall` have safety properties only.

Every property of a passing run is known to fail for a plausible slip in the code, such as a forgotten
`return` after the disconnect, a socket closed after its entry is zeroed, or a missing next receive. These
variants stand before the operator they change, marked "Mutant".

## Where the code does not do what it says

* `iocp_timeout` (`Server.cpp:75`): a FALSE from `GetQueuedCompletionStatus` is taken for a timeout, also
  for the packet of a failed operation. The packet is dropped; the entry of a client that
  reset its connection is never freed, and after a failed AcceptEx no accept is started again. This is
  why `NoOrphan` and the liveness properties are checked without faults.
* `info_types` (dop `server.cpp:215`, Lab 01 `Server.cpp:488`): the type of a drive is used as an index
  of a table that starts at another number, so a fixed drive is called a CD-ROM, a removable one a network
  drive, and types from 4 on are read past the table.

Met while modelling, not run as counterexamples:

* `Server.cpp:117`: the search for a free entry stops one short, so the table serves one client less than
  it has room for.
* `Server.cpp:213-216`: the session key is destroyed after the entry was zeroed, that is, never.
* `Server.cpp:248`: `sz_send` is not reset for the answer to a second key message, which this client never
  sends. `ReKey` is FALSE in the runs because with TRUE the length given to `WSASend` wraps.
* `Client.cpp:148`: one `recv` is taken for one reply. With `Fragments` `PrintedIsTheReply` is violated.
* `Server.cpp:366`: an empty reply is never noticed by the client, and both ends wait. With 0 in `ReplyLens`
  `NoMutualWait` is violated.
* `Server.h:80`: an encrypted request may begin with 0 and is then imported as a key, which fails an assert.
* `Server.cpp:328` and `:369`: asserts on what clients send, or on a reply longer than 512 bytes, end the server for
  all clients. `AssertionsHold` lists the messages that do so: those cut or joined by TCP, those like a key, those
  with too long a reply. No other does.
* `Server.cpp:600` and `:558`: when the security data of a path cannot be read, the handlers of requests 7 and 8 follow
  a pointer that was never set; the return value is not looked at. They may end the server or give some reply.
  The dop routines (`server.cpp:304`) do the same.
* Lab 02 `server.cpp:87`: an upload that could not open or write its file returns 0. `AtomicFiles` has `Tear`
  for this reason, and says nothing of what the client is told.
* Lab 02 `client.h:41`: a size below -1 ends the client in `new`; `Size` and `Up` have that branch.
* Lab 02 `server.cpp:126`: logins race for the global handle, so a client may run as another verified
  user. `UndisturbedLoginIsItsOwn` is what is left. The token stays with the pool thread for later calls.
* dop `server.cpp:150`: the memory report is longer than the client's 256 bytes, and no routine compares its text with
  `buffer_size`. The server writes behind the buffer, and the client prints its own memory for what did not come with
  the reply; either may die of it. `PrintedIsTheText` says what is printed in that case.
* dop `server.cpp:205`: a drive without a volume is shown with the file system of the drive before it.
* dop `server.cpp:276`: a number of fewer than six characters ends the report of the free space.
* `Server.cpp:419`: after half the range of `GetTickCount` the uptime is negative, in all its parts.
* `client.cpp:101` (Lab 02) and `:107` (dop): a line of blanks has no first token, and it is read.
  At the end of the input `cmd_loop` spins.
* `AppInterface.idl:11` declares the login's strings as `wchar_t`; the generated stubs have `unsigned char`.

## Proofs

Every invariant a passing run checks, and `CommandsAreAtomic`, is also a theorem. The theorems hold for every value of
the constants that satisfies the `ASSUME` of the module: any number of entries, clients, sockets, threads, paths, drives
and messages, any lengths, any set of faults. These assumptions say what the constants are (`ServerAssumption`,
`SessionAssumption`, `LoginAssumption`, `CallAssumption`, `InfoAssumption`, `ServiceAssumption`), that a key answer fits
`BufLen`, that the reply buffer of the information service has room for a length, and that the word of an `int` has an
even number of values. In `FileAssumption`, `Absent \notin Seq(Byte)` keeps a missing file apart from an empty one. Some
theorems have a hypothesis more. The run that checks the property satisfies it, and without it the code does not have
the property (see above):

| theorem | hypothesis | why |
|---|---|---|
| `SendsTheRest` | `~ReKey` | no client sends two keys; after a second one `sz_send` is not reset |
| `KeepsAccepting` | `"reset" \notin Faults` | the packet of a failed AcceptEx is dropped |
| `NobodyIsForgotten` | `Faults = {}` | the packet of a failed receive is dropped; without its association with the port the entry is never read |
| `NoDeadlock` | `0 \notin ReplyLens` | an empty reply is not noticed |
| `RepliesMatchRequests` | `~Fragments` | one `recv` is one message |
| `CommandsAreAtomicSteps` | `Exclusive` | transfers of one path overlap |

`IocpServerProofs` proves `TypeCorrect`, `ExclusiveEntries`, `CompletionsReachTheirClient`, `NoSocketLeak` and
`NothingInherited`, that is `Spec => []P` for `TypeOK`, `OneOutstanding`, `NoStaleCompletion`,
`SocketsAccounted` and `FreeEntriesAreBlank`. None of these is inductive alone. A handler may start an operation
on the entry of its packet only because nothing else is outstanding there (`OneOutstanding`); that the
operation belongs to the connection of the entry needs that the packet did (`NoStaleCompletion`); closing
a socket must not hit another entry (`SocketsAccounted`); and an entry given to a client has nothing
outstanding because an operation for it would be on a socket the free entry does not have
(`NoStaleCompletion` with the types in `TypeOK`). `IInv` is their conjunction with the fact that entry 0 always holds the
listening socket. The lemmas `ConsumeKeepsOwnership`, `ProduceKeepsOwnership` and
`RepostKeepsOwnership` treat the three ways a step moves packets and operations, so that each handler's
proof only shows which one it is.

`IocpStreamProofs` goes on from there to the counters: `TeardownIsTheClients`, `SendsTheRest`, `KeepsAccepting`,
`NobodyIsForgotten` (`DisconnectIsReal`, `SendStaysInBuffer`, `AcceptArmed`, `NoOrphan`). The invariant `Streams` says
of each entry what its operation or packet knows (`Sound`): a receive has the whole buffer, so 0 bytes can only mean
that the client ended; a send has the rest of the reply; `sz_send` is 0 until the first message has been taken. The last
clause is why `form_answ_key`, which does not reset `sz_send`, is right for a first message. That a reply fits
`buf_send` is not assumed: the assert at `Server.cpp:369` stops the server before `schedule_write` sees one that does
not. The clause on `sz_send` needs that a key message is the first one (`KeyIsFirst`) and that a connection is on one
socket only (`Links`). `Listening` is the same for entry 0.

`SessionProofs` proves `TypeCorrect`, and `NoDeadlock` and `ServerAgrees` (`AssertionsHold`) with fragments, clashes and
faults. The strengthening `InFlight` says that while the client waits for a server that is up, some piece is in a stream
or in the send buffer, and `OutOnlyWhileSending` that the buffer empties before the server reads again. `ServerAgrees`
rests on `Talking`: as long as the server is up, the stream to it holds the key message alone and untouched until the
server has taken it whole and kept the session key, and from then on only requests. `RepliesMatchRequests`
(`PrintedIsTheReply`) follows from `Turns`, the list of the states of a conversation of whole messages: there is one
message at a time, and both sides hold it for what it is, or the server has ended.

`RpcLoginProofs` proves `TypeCorrect`, `NoUnverifiedClient`, `NoUnverifiedToken`, `OwnToken` and
`NoCauselessRefusal`, that is all the invariants of `rpc_login`. The strengthening follows the handle:
`HandleIsVerified` (it only ever holds a token of a verified user), `WorkIsVerified` (whoever is past
`LogonUser`, or runs a command, is verified) and `HandleIsOurs` (until another login writes it, a login
finds its own token). `OthersKeepLogins` treats all steps that do not touch handle and tokens at once.

`RpcCallProofs` proves `CallsRunTheirRoutine`, `RepliesReachTheirCallers` and `OtherClientsOnlyLogIn` (`RightRoutine`,
`ReplyReachesCaller`, `StrangersOnlyLogIn`), for all strings, sizes, buffers and results. `Fits` says what an entry
of a table must have to carry a C prototype, `Alike` when two entries and the routine table make a call reach its
routine; the lemmas `FileAlike` and `InfoAlike` check this of every generated entry, `StrayAlike`,
`StrayRefused` and `OnlyLoginAlike` say what becomes of each call to the other system's server. The walk of the runtime over
the parameters is proved once for every list that fits: `Packed` and `ToUnpack` give, after any number of
parameters, which items are in the message, counting by `Rank`. In the invariant, `Asking` and `Answering` say
where the arguments and the answer are at each point of a call; no `fault` is possible because the item that comes next
is always that of the parameter that comes next.

`FileServerProofs` proves `TypeCorrect`, `NeverShifted`, `UndisturbedUpload` and `UndisturbedDownload` (`TypeOK`,
`BytesKeepTheirPlace`, `CleanUploadGrows`, `CleanDownloadIsExact`), whoever overlaps with whom. The strengthening: an open
file exists (`OpenIsThere`), buffers are as long as the size says and are not overrun (`Shape`), and an undisturbed transfer
holds the beginning of the file up to its position (`CleanDownload`, `CleanUpload`). `FileAtomicProofs` proves
`CommandsAreAtomicSteps`: `Spec => CommandsAreAtomic`, each step of `FileServer` being a step of `AtomicFiles` or a
stutter under the mapping `Before`. It rests on `Excl`: the path of a command is nobody else's, so nothing is ever
`hurt`, and what an upload has loaded is still the local file.

`InfoServiceProofs` proves `PrintsTheText`, `CoversTheMask`, `LastFileSystems` (`RowsShowTheLastFileSystem`),
`FreeSpaceIsCut`, `UptimeIsWhole` and `SplitIsRight`, all invariants of `info_service`, for lines, texts and drives of
any number. Most of it is about functions: that the loop that moves a text up by four bytes overwrites nothing it has
yet to read, where the fields of a text begin, that `split` returns the words of a line. The library's induction
theorems cannot be used here (they take an operator), so induction is done by the least counterexample: lemma `Least`,
from the well-foundedness of finite sets. A recursive function is unfolded by showing that the function it defines
exists. The invariant then says how far each report has come (`TypesReport`, `SpaceReport`), and that the uptime printed
is that of the tick count read (`UptimeReport`).

Model-checked only: the liveness properties (`ClosedClientsAreReleased`, `NoClientWaitsForever`, `SentIsReceived`,
`RequestsAreAnswered`, `WaitingEnds`, `LoginsAreAnswered`, `CommandsEnd`), since fairness and `ENABLED` are beyond the
prover; and the two counterexamples.

## Not modelled

* Failures in the constructor of the Lab 01 server, of `WSASocket` and of the first `AcceptEx`: the server
  would not start or would be deaf from the start. Failing memory and console output.
* What undefined behaviour damages beyond the call it happens in. A write behind the reply buffer, or the use of a
  pointer or a length never set, ends the process or lets the call return; a heap broken for later calls is left out. So is
  a free-space report that fills the buffer to its last byte, where `strlen` may read on into what lies behind it.
* Letters of texts, names and paths. In `IocpServer` and `Session` a reply is a length.
* Cryptography: a key message is whole or not, a request decrypts or not.
* The RPC runtime beyond what the stubs ask of it: it neither loses nor repeats calls. A client of
  the file server at the information server, whose result depends on how a string is read as a number.
* Names and passwords of ten characters and more in `serv_login`, which write past their arrays.
* `src/Lab 02/Interface` and `src/Lab 02/Server/Server/AppInterface.h`, further copies of modelled files;
  build trees and IDE files (the `CompilerId` sources are CMake's).
