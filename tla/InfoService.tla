----------------------------- MODULE InfoService -----------------------------
(***************************************************************************)
(* A client of the information server of Lab 01 - dop at its prompt: a     *)
(* line is split, the call it asks for runs on the server, which looks at  *)
(* the machine drive by drive while drives come and go, and the reply      *)
(* comes back in a buffer of fixed size with its length in front.  Nothing *)
(* is shared between calls, so one client is enough; how clients come to   *)
(* their prompt is in RpcLogin.                                            *)
(***************************************************************************)
EXTENDS SystemInfo, FiniteSets

CONSTANTS
  LineLen,       \* bound: length of the lines typed
  BufSize,       \* buf_size of the client's handlers
  Letters,       \* number of drive letters: 26, scaled
  Drives,        \* what may be in a drive: [type, fs], fs the length of the
                 \* name of the file system, 0 if there is no volume
  Changes,       \* bound: how often the drives change during a call
  Ticks,         \* uptimes
  MemoryWidths,  \* numbers of digits in the memory status
  NumberWidths,  \* lengths of a number gcvt writes
  NameWidths,    \* lengths of user names, 0 for an account that is not found
  Junk           \* lengths of what is found in memory nobody has written

ASSUME ServiceAssumption ==
  /\ {LineLen, BufSize, Letters, Changes} \subseteq Nat
  /\ BufSize >= 4                      \* there is room for the length
  /\ Drives \subseteq [type : DriveTypes, fs : Nat]
  /\ Ticks \subseteq 0 .. Word - 1
  /\ MemoryWidths \subseteq [1..7 -> Nat]
  /\ NumberWidths \cup NameWidths \cup Junk \subseteq Nat

Letter == 1 .. Letters
Gone   == [type |-> NoRoot, fs |-> 0]    \* no drive has this letter

Commands == {"osversion", "curtime", "ostime", "memstat", "diskstype", "freespace",
             "fowner", "frights", "exit", "help"}

\* A command word of a line is written as one character, and so is any other
\* letter, "x".
Space == " "
Char  == {"diskstype", "fowner", "exit", "x", Space}

VARIABLES
  drives,    \* letter -> what is in it
  client,    \* where the client is: [at, line, tokens]
  call,      \* the call on the server
  changes    \* how often the drives have changed during the call

vars == <<drives, client, call, changes>>

-----------------------------------------------------------------------------
(* split: `words` gives the tokens of s from position i on.                *)

\* Mutant: a last word that no blank follows is lost.
split_Last(s) ==
  LET words[i \in 1 .. Len(s) + 1] ==
        IF i > Len(s) THEN <<>>
        ELSE IF s[i] = Space THEN words[i + 1]
        ELSE LET ends == {j \in i .. Len(s) : s[j] = Space}
             IN  IF ends = {} THEN <<>>
                 ELSE LET j == CHOOSE j \in ends : \A k \in ends : j <= k
                      IN  <<SubSeq(s, i, j - 1)>> \o words[j]
  IN  words[1]

split(s) ==
  LET words[i \in 1 .. Len(s) + 1] ==
        IF i > Len(s) THEN <<>>
        ELSE IF s[i] = Space THEN words[i + 1]
        ELSE LET ends == {j \in i .. Len(s) : s[j] = Space}
             IN  IF ends = {} THEN <<SubSeq(s, i, Len(s))>>
                 ELSE LET j == CHOOSE j \in ends : \A k \in ends : j <= k
                      IN  <<SubSeq(s, i, j - 1)>> \o words[j]
  IN  words[1]

wrong_args(cmd, t) ==
  \/ cmd \in {"osversion", "curtime", "ostime", "memstat", "diskstype", "freespace"} /\ Len(t) # 1
  \/ cmd \in {"fowner", "frights"} /\ Len(t) # 2

-----------------------------------------------------------------------------
(* The buffer of a call: bytes 0 .. BufSize - 1, zeroed by the runtime.  No *)
(* routine looks at buffer_size: a text that with its length needs more is *)
(* built and moved all the same, in the memory behind the buffer.          *)

Overrun(text) == Len(text) + 4 > BufSize

\* The buffer on the server, and as much of the memory behind it as is written.
InBuffer(text) ==
  [i \in 0 .. (IF Overrun(text) THEN Len(text) + 3 ELSE BufSize - 1) |->
     IF i < Len(text) THEN text[i + 1] ELSE NUL]

\* The loop every handler ends with.  One pass writes byte i with what byte i - 4
\* holds then: what an earlier pass has stored there, or else what was there before
\* the loop.  i goes from n + 3 down to 4; then the length is put in front.
Framed_Upwards(buffer, n) ==            \* Mutant: i goes up.
  LET pass(i) == i - 4
      stored[i \in 4 .. n + 3] ==
        IF i - 4 >= 4 /\ pass(i - 4) < pass(i) THEN stored[i - 4] ELSE buffer[i - 4]
  IN  [i \in DOMAIN buffer |->
         IF i < 4 THEN <<"length", n, i>> ELSE IF i < n + 4 THEN stored[i] ELSE buffer[i]]

Framed(buffer, n) ==
  LET pass(i) == n + 3 - i
      stored[i \in 4 .. n + 3] ==
        IF i - 4 >= 4 /\ pass(i - 4) < pass(i) THEN stored[i - 4] ELSE buffer[i - 4]
  IN  [i \in DOMAIN buffer |->
         IF i < 4 THEN <<"length", n, i>> ELSE IF i < n + 4 THEN stored[i] ELSE buffer[i]]

\* The client has the BufSize bytes of the reply, and behind them its own memory.
Received(buffer) ==
  [i \in DOMAIN buffer |-> IF i < BufSize THEN buffer[i] ELSE <<"foreign", 0, i>>]

\* What print_response prints.
Printed(buffer) == [i \in 1 .. buffer[0][2] |-> buffer[i + 3]]

\* What the client shows of a text.
Shown(text) == Printed(Received(Framed(InBuffer(text), Len(text))))

-----------------------------------------------------------------------------

Idle    == [at |-> "idle", cmd |-> "", given |-> 0, text |-> <<>>, mask |-> {}, left |-> {},
            name |-> <<>>, volumes |-> {}, seen |-> <<>>]
Prompt  == [at |-> "prompt", line |-> <<>>, tokens |-> <<>>]

Init ==
  /\ drives \in [Letter -> Drives \cup {Gone}]
  /\ client = Prompt
  /\ call = Idle
  /\ changes = 0

\* A drive is plugged in or pulled out while a call is at work.
Replug(l) ==
  /\ call.at = "drives" /\ changes < Changes
  /\ \E d \in (Drives \cup {Gone}) \ {drives[l]} : drives' = [drives EXCEPT ![l] = d]
  /\ changes' = changes + 1
  /\ UNCHANGED <<client, call>>

-----------------------------------------------------------------------------
(* cmd_loop.                                                               *)

\* Lines of any shape, and lines that are a command with what it needs.
Lines ==
  (UNION {[1..n -> Char] : n \in 1 .. LineLen})
    \cup {<<cmd>> : cmd \in Commands}
    \cup {<<cmd, Space, "x">> : cmd \in {"fowner", "frights"}}

\* getline; an empty line is asked for again.
ReadLine ==
  /\ client.at = "prompt"
  /\ \E s \in Lines : client' = [Prompt EXCEPT !.at = "split", !.line = s, !.tokens = split(s)]
  /\ UNCHANGED <<drives, call, changes>>

\* The first token decides.  A line of blanks has none: what is at the end of an
\* empty list is taken for a token, which ends the client or is no command.
Interpret ==
  /\ client.at = "split"
  /\ LET t   == client.tokens
         cmd == IF t # <<>> /\ Len(t[1]) = 1 /\ t[1][1] \in Commands THEN t[1][1] ELSE "no command"
     IN  \/ /\ t = <<>>
            /\ client' = [client EXCEPT !.at = "died"]
            /\ UNCHANGED call
         \/ /\ cmd = "exit"
            /\ client' = [client EXCEPT !.at = "ended"]
            /\ UNCHANGED call
         \/ /\ cmd \in {"help", "no command"} \/ wrong_args(cmd, t)
            /\ client' = Prompt
            /\ UNCHANGED call
         \/ /\ cmd \in Commands \ {"exit", "help"} /\ ~wrong_args(cmd, t)
            /\ client' = [client EXCEPT !.at = "call"]
            /\ call' = [Idle EXCEPT !.at = "run", !.cmd = cmd]
  /\ UNCHANGED <<drives, changes>>

\* A handler of the client has its reply and prints it: Shown.  The length in front
\* may lead it behind its own buffer, where there may be nothing it can read.
print_response ==
  /\ client.at = "call" /\ call.at = "done"
  /\ \/ client' = [client EXCEPT !.at = "printed"]
     \/ Overrun(call.text) /\ client' = [client EXCEPT !.at = "died"]
  /\ UNCHANGED <<drives, call, changes>>

\* Back to the prompt.
Loop ==
  /\ client.at = "printed"
  /\ client' = Prompt /\ call' = Idle /\ changes' = 0
  /\ UNCHANGED drives

\* The server is gone: an exception nobody catches.
Fail ==
  /\ client.at = "call" /\ call.at = "died"
  /\ client' = [client EXCEPT !.at = "died"]
  /\ UNCHANGED <<drives, call, changes>>

-----------------------------------------------------------------------------
(* The routines of the server.                                             *)

\* The routine has its text.  When that, or the report it was cut from, has gone
\* past the buffer, the process may end of it, or the call return all the same.
Finish(text, given) ==
  \E at \in {"done"} \cup (IF Overrun(text) \/ Len(call.text) > BufSize THEN {"died"} ELSE {}) :
    call' = [call EXCEPT !.at = at, !.text = text, !.given = given]

Running(cmd) == call.at = "run" /\ call.cmd = cmd

serv_os_version ==
  /\ Running("osversion")
  /\ \E v \in 1 .. Len(Versions), rtl \in BOOLEAN : Finish(os_version_handler(v, rtl), v)
  /\ UNCHANGED <<drives, client, changes>>

Times == {[day |-> 9, month |-> 12, year |-> 2020, hour |-> 0, minute |-> 59, second |-> 10]}

serv_current_time ==
  /\ Running("curtime")
  /\ \E t \in Times : Finish(current_time_handler(t), 0)
  /\ UNCHANGED <<drives, client, changes>>

serv_os_time ==
  /\ Running("ostime")
  /\ \E t \in Ticks : Finish(os_time_handler(t), t)
  /\ UNCHANGED <<drives, client, changes>>

serv_memory_status ==
  /\ Running("memstat")
  /\ \E w \in MemoryWidths : Finish(memory_status_handler(w), 0)
  /\ UNCHANGED <<drives, client, changes>>

\* Of a file that is not there, or that may not be read, the two routines follow a
\* pointer they never set, to an owner and to a list of rights, and may die.  The
\* lengths given to LookupAccountSid are not set either: it may find no name, or
\* write past `user` and `domain`.
serv_file_owner ==
  /\ Running("fowner")
  /\ \/ \E n \in NameWidths : Finish(owner_handler(n), n)
     \/ call' = [call EXCEPT !.at = "died"]
  /\ UNCHANGED <<drives, client, changes>>

serv_file_access_right ==
  /\ Running("frights")
  /\ \/ \E n \in NameWidths : Finish(access_right_handler(n, 12, 8), n)
     \/ call' = [call EXCEPT !.at = "died"]
  /\ UNCHANGED <<drives, client, changes>>

\* GetLogicalDrives, at the start of serv_disks_types and serv_free_space.
GetLogicalDrives_Short ==               \* Mutant: the last letter is left out.
  /\ call.at = "run" /\ call.cmd \in {"diskstype", "freespace"}
  /\ LET mask == {l \in Letter : drives[l] # Gone}
     IN  \E name \in {Field("junk", 0, n) : n \in Junk} :
           call' = [call EXCEPT !.at = "drives", !.mask = mask, !.left = mask \ {Letters}, !.name = name]
  /\ UNCHANGED <<drives, client, changes>>

GetLogicalDrives ==
  /\ call.at = "run" /\ call.cmd \in {"diskstype", "freespace"}
  /\ LET mask == {l \in Letter : drives[l] # Gone}
     IN  \E name \in {Field("junk", 0, n) : n \in Junk} :
           call' = [call EXCEPT !.at = "drives", !.mask = mask, !.left = mask, !.name = name]
  /\ UNCHANGED <<drives, client, changes>>

\* The loops take the drives of the mask in the order of their letters.
NextDrive(l) == l \in call.left /\ \A m \in call.left : l <= m

FileSystem_Late(l) == call.name          \* Mutant: read after it is used.

\* The file system the drive has now.  When there is none to be read, or the
\* drive has gone, name_file_system keeps what it held.
FileSystem(l) ==
  IF drives[l].fs = 0 THEN call.name ELSE Field("fs", l, drives[l].fs)

serv_disks_types(l) ==
  LET name == FileSystem(l)
  IN  /\ call.at = "drives" /\ call.cmd = "diskstype"
      /\ NextDrive(l)
      /\ \E past \in Junk :
           call' = [call EXCEPT !.left = @ \ {l}, !.name = name,
                                !.volumes = @ \cup {v \in {l} : drives[v].fs > 0},
                                !.text = @ \o DriveRow(l, drives[l].type, past, name)]
      /\ UNCHANGED <<drives, client, changes>>

serv_free_space(l) ==
  /\ call.at = "drives" /\ call.cmd = "freespace"
  /\ NextDrive(l)
  /\ IF drives[l].type = Fixed
     THEN \E n \in NumberWidths :
            call' = [call EXCEPT !.left = @ \ {l}, !.seen = Append(@, [drive |-> l, width |-> n]),
                                 !.text = @ \o FreeCell(l, n)]
     ELSE call' = [call EXCEPT !.left = @ \ {l}]
  /\ UNCHANGED <<drives, client, changes>>

\* After the loop: strlen and the shift.
DrivesDone ==
  /\ call.at = "drives" /\ call.left = {}
  /\ Finish(CString(call.text), 0)
  /\ UNCHANGED <<drives, client, changes>>

-----------------------------------------------------------------------------

Server ==
  \/ serv_os_version \/ serv_current_time \/ serv_os_time \/ serv_memory_status
  \/ serv_file_owner \/ serv_file_access_right
  \/ GetLogicalDrives \/ DrivesDone
  \/ \E l \in Letter : serv_disks_types(l) \/ serv_free_space(l)

Program == Interpret \/ print_response \/ Loop \/ Fail \/ Server

Next == ReadLine \/ Program \/ \E l \in Letter : Replug(l)

Spec == Init /\ [][Next]_vars

-----------------------------------------------------------------------------
(* Properties.                                                             *)

\* What the client prints has the length of the text of the routine and is, byte
\* for byte, that text, as far as the text came with the reply, although it was moved
\* by four bytes within the buffer it was built in.  What did not come with the reply
\* is foreign: only a text that leaves room for its length is printed whole.
PrintedIsTheText ==
  client.at = "printed" =>
    LET shown == Shown(call.text)
    IN  /\ Len(shown) = Len(call.text)
        /\ \A i \in DOMAIN shown :
             IF i + 4 <= BufSize THEN shown[i] = call.text[i] ELSE shown[i][1] = "foreign"

\* The tokens of a line are its longest pieces without blanks, in their order.
SplitFindsWords ==
  LET s    == client.line
      runs == {r \in (DOMAIN s) \X (DOMAIN s) :
                 /\ r[1] <= r[2] /\ \A i \in r[1] .. r[2] : s[i] # Space
                 /\ r[1] = 1 \/ s[r[1] - 1] = Space
                 /\ r[2] = Len(s) \/ s[r[2] + 1] = Space}
  IN  client.at = "split" =>
        /\ Len(client.tokens) = Cardinality(runs)
        /\ \A r \in runs :
             client.tokens[Cardinality({q \in runs : q[1] <= r[1]})] = SubSeq(s, r[1], r[2])

\* Where in a text fields of the given kinds begin.
Starts(text, kinds) == {i \in DOMAIN text : text[i][1] \in kinds /\ text[i][3] = 1}

\* The report of the drive types has one row for every drive there was when it
\* was begun, in the order of the letters, whatever came and went meanwhile.
ReportCoversTheMask ==
  (call.cmd = "diskstype" /\ call.at = "done") =>
    LET rows == Starts(call.text, {"drive"})
    IN  /\ {call.text[i][2] : i \in rows} = call.mask
        /\ \A i, j \in rows : i < j => call.text[i][2] < call.text[j][2]

\* Where in a report on the drive types the names begin that stand in the row that
\* begins at i.
NamesIn(text, i) ==
  {k \in Starts(text, {"fs", "junk"}) :
     i < k /\ \A j \in Starts(text, {"drive"}) : j <= i \/ k < j}

\* The name is read into one buffer for all rows, which a drive without a volume
\* leaves alone.  So a row shows the file system of its own drive if that had a volume
\* when the row was made, else of the last drive before it that had; a row with no
\* such drive shows no file system, only what nobody has written.
RowsShowTheLastFileSystem ==
  (call.cmd = "diskstype" /\ call.at = "done") =>
    \A i \in Starts(call.text, {"drive"}) :
      LET text  == call.text
          names == NamesIn(text, i)
          had   == {v \in call.volumes : v <= text[i][2]}
      IN  IF had = {} THEN \A k \in names : text[k][1] = "junk"
          ELSE \E k \in names :
                 /\ names = {k} /\ text[k][1] = "fs"
                 /\ text[k][2] \in had /\ \A v \in had : v <= text[k][2]

\* The report of the free space has rows of 13 bytes and ends at the first number
\* of fewer than six characters: it lists the fixed drives up to that one, and
\* all of them if there is none.
FreeSpaceEndsAtAShortNumber ==
  (call.cmd = "freespace" /\ call.at = "done") =>
    LET listed == {j \in DOMAIN call.seen : \A k \in 1 .. j - 1 : call.seen[k].width >= 6}
    IN  /\ Starts(call.text, {"drive"}) = {13 * j - 12 : j \in listed}
        /\ \A j \in listed : call.text[13 * j - 12][2] = call.seen[j].drive

\* Three numbers of a printed line, in order, are the hours, minutes and seconds of t.
TimeOf(line, t) ==
  LET value(i) == line[i][2]
  IN  \E h, m, s \in Starts(line, {"number"}) :
        /\ Starts(line, {"number"}) = {h, m, s} /\ h < m /\ m < s
        /\ value(h) * 3600 + value(m) * 60 + value(s) = Quot(AsInt(t), Second)
        /\ value(m) \in -59 .. 59 /\ value(s) \in -59 .. 59
        /\ t < Word \div 2 => value(h) >= 0 /\ value(m) >= 0 /\ value(s) >= 0

\* The hours, minutes and seconds of the report of the uptime, which is printed whole
\* if the buffer holds it, add up to what the int holds, also when it has turned
\* negative.
UptimeAddsUp ==
  (client.at = "printed" /\ call.cmd = "ostime" /\ ~Overrun(call.text)) =>
    TimeOf(Shown(call.text), call.given)

\* The menu says "Types of connected drives (local / network / removable)": the
\* name in a row is that of the type the drive has.
TypeNamesAreTrue ==
  LET name == [removable |-> 2, fixed |-> 3, network |-> 4]
  IN  \A i \in Starts(call.text, DOMAIN name) : name[call.text[i][1]] = call.text[i][2]

=============================================================================
