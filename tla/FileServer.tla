------------------------------ MODULE FileServer ------------------------------
(***************************************************************************)
(* Files of the server of Lab 02 under the commands rm, down and up of its *)
(* clients.  A client is synchronous: while a call of it runs on a thread  *)
(* of the server, the call's state is the client's.  The threads of        *)
(* different clients interleave, and no thread locks a file: the streams   *)
(* are opened for sharing, so only the removal of an open file fails.      *)
(*                                                                         *)
(* A file is a sequence of bytes and a byte is <<origin, position>>: who   *)
(* made it and where it was in the file it was made in.                    *)
(***************************************************************************)
EXTENDS Integers, Sequences, FiniteSets

CONSTANTS
  Client, Path,
  Absent,      \* in place of a file: there is none
  Fill,        \* the byte the RPC runtime fills an [out] array with
  Word,        \* number of values of an int
  Lengths,     \* lengths of the files there are at the start
  Faults,      \* which faults of the environment are enabled
  Exclusive    \* no two clients name the same path at the same time

Byte == ((Client \cup {"server"}) \X Nat) \cup {Fill}

ASSUME FileAssumption ==
  /\ Absent \notin Seq(Byte)
  /\ Word \in Nat \ {0} /\ (Word % 2) = 0
  /\ Lengths \subseteq Nat
  /\ Faults \subseteq {"deny", "full", "crash"}
  /\ Exclusive \in BOOLEAN

VARIABLES
  store,     \* path -> file of the server
  local,     \* client -> the local file it names in its commands
  call,      \* client -> where its command is
  up         \* the server runs

vars == <<store, local, call, up>>

-----------------------------------------------------------------------------

FileOf(o, n) == [i \in 1..n |-> <<o, i>>]
Some(o)      == {FileOf(o, n) : n \in Lengths} \cup {Absent}

\* static_cast<int>(file.tellg())
AsInt(n) == IF n % Word < Word \div 2 THEN n % Word ELSE (n % Word) - Word

\* The states of a command: "ask" is serv_get_file_size, "asked" between the
\* two calls of a download, "read" serv_download, "fetched" before the local
\* file is written, "loaded" before serv_upload, "write" in serv_upload.
\* `size` is buffer_size, `buf` the buffer and `pos` how far the transfer is.
\* History: `hurt`, another client changed the file meanwhile; `was`, what the
\* file was before an upload (of clients that exclude each other).
Idle == [at |-> "loop", path |-> Absent, size |-> 0, buf |-> <<>>, pos |-> 0,
         hurt |-> FALSE, was |-> Absent]
Dead == [Idle EXCEPT !.at = "died"]

\* A stream of the server is open on p.
OpenOn(p) == \E c \in Client : call[c].at \in {"ask", "read", "write"} /\ call[c].path = p

\* Another client is about to write to p.
WrittenByOther(c, p) == \E d \in Client \ {c} : call[d].at = "write" /\ call[d].path = p

\* The calls after client c changed the file at p and its own call became k.
Touch(c, p, k) ==
  [d \in Client |->
     IF d = c THEN k ELSE [call[d] EXCEPT !.hurt = @ \/ call[d].path = p]]

\* cmd_loop read a command of client c about path p.
Start(c, p) ==
  /\ call[c] = Idle
  /\ Exclusive => \A d \in Client : call[d].path # p

Init ==
  /\ store \in [Path -> Some("server")]
  /\ local \in {l \in [Client -> UNION {Some(c) : c \in Client}] : \A c \in Client : l[c] \in Some(c)}
  /\ call = [c \in Client |-> Idle]
  /\ up = TRUE

-----------------------------------------------------------------------------
(* rm                                                                      *)

\* The file goes if there is one and nobody has it open.
Remove(c, p) ==
  /\ Start(c, p) /\ up
  /\ store[p] # Absent /\ ~OpenOn(p)
  /\ store' = [store EXCEPT ![p] = Absent]
  /\ call' = Touch(c, p, Idle)
  /\ UNCHANGED <<local, up>>

\* A command that cannot be done: the client prints an error, both loops are
\* where they were.  A call whose result is -1 is one of these.
Complain(c, p) ==
  /\ Start(c, p) /\ up
  /\ \/ store[p] = Absent \/ OpenOn(p)                \* rm
     \/ store[p] = Absent \/ "deny" \in Faults         \* down
     \/ (local[c] # Absent => AsInt(Len(local[c])) = -1)  \* up
  /\ UNCHANGED vars

\* The first call of a command finds no server: an exception nobody catches.
Unserved(c) ==
  /\ call[c] = Idle /\ ~up
  /\ call' = [call EXCEPT ![c] = Dead]
  /\ UNCHANGED <<store, local, up>>

-----------------------------------------------------------------------------
(* down                                                                    *)

\* Handler::download calls serv_get_file_size, which opens the file for
\* reading and writing.  If it cannot, the result is -1, "No such file", and
\* nothing has changed.
Down(c, p) ==
  /\ Start(c, p) /\ up
  /\ store[p] # Absent
  /\ call' = [call EXCEPT ![c] = 
       [Idle EXCEPT !.at = "ask", !.path = p, !.hurt = WrittenByOther(c, p)]]
  /\ UNCHANGED <<store, local, up>>

\* seekg to the end, tellg, close.  The client takes -1 for a file that is not
\* there, and dies of any other negative number in new unsigned char[].
Size_Stale(c) ==                        \* Mutant: one byte short.
  LET n == AsInt(Len(store[call[c].path])) - 1
  IN  /\ call[c].at = "ask"
      /\ call' = [call EXCEPT ![c] =
           CASE n = -1 -> Idle
             [] n < -1 -> Dead
             [] OTHER  -> [@ EXCEPT !.at = "asked", !.size = n]]
      /\ UNCHANGED <<store, local, up>>

Size(c) ==
  LET n == AsInt(Len(store[call[c].path]))
  IN  /\ call[c].at = "ask"
      /\ call' = [call EXCEPT ![c] =
           CASE n = -1 -> Idle
             [] n < -1 -> Dead
             [] OTHER  -> [@ EXCEPT !.at = "asked", !.size = n]]
      /\ UNCHANGED <<store, local, up>>

Download_Terminated(c) ==               \* Mutant: one byte more, as for a text.
  LET p == call[c].path
  IN  /\ call[c].at = "asked" /\ up /\ store[p] # Absent
      /\ call' = [call EXCEPT ![c] =
           [@ EXCEPT !.at = "read", !.buf = [i \in 1 .. call[c].size + 1 |-> Fill]]]
      /\ UNCHANGED <<store, local, up>>

\* serv_download opens the file into an array of the runtime's, as long as the
\* client said, or returns -1, which ends the command.
Download(c) ==
  LET p == call[c].path
  IN  /\ call[c].at = "asked"
      /\ \/ /\ up /\ store[p] # Absent
            /\ call' = [call EXCEPT ![c] =
                 [@ EXCEPT !.at = "read", !.buf = [i \in 1..call[c].size |-> Fill]]]
         \/ /\ up /\ (store[p] = Absent \/ "deny" \in Faults)
            /\ call' = [call EXCEPT ![c] = Idle]
         \/ /\ ~up
            /\ call' = [call EXCEPT ![c] = Dead]
      /\ UNCHANGED <<store, local, up>>

\* The read reaches byte n of the file as the file is now.
Read(c, n) ==
  LET k == call[c]
      f == store[k.path]
  IN  /\ k.at = "read"
      /\ k.pos < n /\ n <= k.size /\ n <= Len(f)
      /\ call' = [call EXCEPT ![c] =
           [k EXCEPT !.buf = [i \in 1..k.size |-> IF i \in k.pos + 1 .. n THEN f[i] ELSE k.buf[i]],
                     !.pos = n]]
      /\ UNCHANGED <<store, local, up>>

ReadEnd_Full(c) ==                      \* Mutant: goes on until it is full.
  LET k == call[c]
  IN  /\ k.at = "read"
      /\ k.pos = k.size
      /\ call' = [call EXCEPT ![c].at = "fetched"]
      /\ UNCHANGED <<store, local, up>>

\* The buffer is full or the file has ended: 0 is returned in both cases.
ReadEnd(c) ==
  LET k == call[c]
  IN  /\ k.at = "read"
      /\ k.pos = k.size \/ k.pos >= Len(store[k.path])
      /\ call' = [call EXCEPT ![c].at = "fetched"]
      /\ UNCHANGED <<store, local, up>>

\* The buffer becomes the local file.  Whether that could be opened or written
\* is not looked at.
Save(c) ==
  /\ call[c].at = "fetched"
  /\ \/ local' = [local EXCEPT ![c] = call[c].buf]
     \/ "deny" \in Faults /\ UNCHANGED local
  /\ call' = [call EXCEPT ![c] = Idle]
  /\ UNCHANGED <<store, up>>

-----------------------------------------------------------------------------
(* up                                                                      *)

\* Handler::upload takes the size of the local file and reads that much of it.
Up(c, p) ==
  LET n == AsInt(Len(local[c]))
  IN  /\ Start(c, p)
      /\ local[c] # Absent /\ n # -1
      /\ call' = [call EXCEPT ![c] =
           IF n < -1 THEN Dead
           ELSE [Idle EXCEPT !.at = "loaded", !.path = p, !.size = n, !.buf = SubSeq(local[c], 1, n)]]
      /\ UNCHANGED <<store, local, up>>

Opened(c, p) ==
  [call[c] EXCEPT !.at = "write", !.hurt = WrittenByOther(c, p),
                  !.was = IF Exclusive THEN store[p] ELSE Absent]

\* serv_upload opens the file and truncates it.  When it cannot, it writes
\* nothing and returns 0 all the same.
Upload_Keeps(c) ==                      \* Mutant: the file is not truncated.
  LET p == call[c].path
      f == IF store[p] = Absent THEN <<>> ELSE store[p]
  IN  /\ call[c].at = "loaded" /\ up
      /\ store' = [store EXCEPT ![p] = f]
      /\ call' = Touch(c, p, Opened(c, p))
      /\ UNCHANGED <<local, up>>

Upload(c) ==
  LET p == call[c].path
  IN  /\ call[c].at = "loaded"
      /\ \/ /\ up
            /\ store' = [store EXCEPT ![p] = <<>>]
            /\ call' = Touch(c, p, Opened(c, p))
         \/ /\ up /\ "deny" \in Faults
            /\ call' = [call EXCEPT ![c] = Idle]
            /\ UNCHANGED store
         \/ /\ ~up
            /\ call' = [call EXCEPT ![c] = Dead]
            /\ UNCHANGED store
      /\ UNCHANGED <<local, up>>

\* What file f is after bytes m + 1 .. n of b were written at their place, zeros
\* in the gap that a truncation by another thread may have left.
Written(f, b, m, n) ==
  [i \in 1 .. (IF n > Len(f) THEN n ELSE Len(f)) |->
     CASE i \in m + 1 .. n -> b[i]
       [] i \in 1 .. m /\ i > Len(f) -> Fill
       [] OTHER -> f[i]]

\* The write reaches byte n.
Write_Appends(c, n) ==                  \* Mutant: written at the file's end.
  LET k == call[c]
  IN  /\ k.at = "write"
      /\ k.pos < n /\ n <= k.size
      /\ store' = [store EXCEPT ![k.path] = @ \o SubSeq(k.buf, k.pos + 1, n)]
      /\ call' = Touch(c, k.path, [k EXCEPT !.pos = n])
      /\ UNCHANGED <<local, up>>

Write(c, n) ==
  LET k == call[c]
  IN  /\ k.at = "write"
      /\ k.pos < n /\ n <= k.size
      /\ store' = [store EXCEPT ![k.path] = Written(@, k.buf, k.pos, n)]
      /\ call' = Touch(c, k.path, [k EXCEPT !.pos = n])
      /\ UNCHANGED <<local, up>>

\* The file is closed when all is written or the disk is full; 0 is returned.
WriteEnd(c) ==
  LET k == call[c]
  IN  /\ k.at = "write"
      /\ k.pos = k.size \/ "full" \in Faults
      /\ call' = [call EXCEPT ![c] = Idle]
      /\ UNCHANGED <<store, local, up>>

-----------------------------------------------------------------------------
(* The server's process ends, the calls in it with it, and their clients    *)
(* with an exception nobody catches.  What was written stays.               *)

Crash ==
  /\ "crash" \in Faults /\ up
  /\ up' = FALSE
  /\ call' = [c \in Client |-> IF call[c].at \in {"ask", "read", "write"} THEN Dead ELSE call[c]]
  /\ UNCHANGED <<store, local>>

Restart ==
  /\ ~up
  /\ up' = TRUE
  /\ UNCHANGED <<store, local, call>>

\* A client whose process has died is started again.
Again(c) ==
  /\ call[c] = Dead
  /\ call' = [call EXCEPT ![c] = Idle]
  /\ UNCHANGED <<store, local, up>>

\* What the code does by itself once a command was given.
Progress(c) ==
  \/ Size(c) \/ Download(c) \/ ReadEnd(c) \/ Save(c) \/ Upload(c) \/ WriteEnd(c)
  \/ \E n \in 1 .. call[c].size : Read(c, n) \/ Write(c, n)

Next ==
  \/ \E c \in Client, p \in Path : Remove(c, p) \/ Down(c, p) \/ Up(c, p) \/ Complain(c, p)
  \/ \E c \in Client : Progress(c) \/ Unserved(c) \/ Again(c)
  \/ Crash \/ Restart

Spec == Init /\ [][Next]_vars

FairSpec == Spec /\ \A c \in Client : WF_vars(Progress(c))

-----------------------------------------------------------------------------
(* Properties.                                                             *)

TypeOK ==
  /\ \A p \in Path : store[p] # Absent =>
       DOMAIN store[p] = 1 .. Len(store[p]) /\ \A i \in DOMAIN store[p] : store[p][i] \in Byte
  /\ \A c \in Client :
       /\ call[c].at \in {"loop", "ask", "asked", "read", "fetched", "loaded", "write", "died"}
       /\ call[c].pos \in 0 .. call[c].size /\ Len(call[c].buf) \in {0, call[c].size}
  /\ up \in BOOLEAN

\* Whatever overlaps, truncates, crashes or runs out of disk, a byte is only ever
\* found at the position its maker gave it: files are overlaid, never shifted.
BytesKeepTheirPlace ==
  LET InPlace(f) == f # Absent => \A i \in 1 .. Len(f) : f[i] = Fill \/ f[i][2] = i
  IN  /\ \A p \in Path : InPlace(store[p])
      /\ \A c \in Client : InPlace(local[c]) /\ InPlace(call[c].buf)

\* While nobody else touches the path, the file on the server is what has been
\* written of the upload, nothing of the file before it: so it is the whole file
\* when serv_upload returns, and a beginning of it when the server ends.
CleanUploadGrows ==
  \A c \in Client :
    (call[c].at = "write" /\ ~call[c].hurt)
       => store[call[c].path] = SubSeq(call[c].buf, 1, call[c].pos)

\* A download nobody else touches the file of brings exactly the file, though
\* its size and its bytes are asked for in two calls, if the size fits an int.
CleanDownloadIsExact ==
  \A c \in Client :
    LET f == store[call[c].path]
    IN  (call[c].at = "fetched" /\ ~call[c].hurt /\ call[c].path \in Path)
          => f # Absent /\ (Len(f) < Word \div 2 => call[c].buf = f)

\* Every command comes back to the prompt or ends its client; no read or write
\* goes on for ever, whatever others do to the file.
CommandsEnd ==
  \A c \in Client : call[c].at \notin {"loop", "died"} ~> call[c].at \in {"loop", "died"}

\* With clients that keep out of each other's way, the streams, the two calls of
\* a download and the pieces of an upload are not to be seen: each command is
\* one step of AtomicFiles, taken when it ends.
Before(p) ==
  IF \E c \in Client : call[c].at = "write" /\ call[c].path = p
  THEN call[CHOOSE c \in Client : call[c].at = "write" /\ call[c].path = p].was
  ELSE store[p]

Atomic == INSTANCE AtomicFiles WITH
  files <- [p \in Path |-> Before(p)], Limit <- Word \div 2

CommandsAreAtomic == Atomic!Spec

=============================================================================
