------------------------------ MODULE SystemInfo ------------------------------
(***************************************************************************)
(* The texts of the eight reports on the machine, as the request handlers  *)
(* of the server of Lab 01 build them in buf_send; the information server  *)
(* of Lab 01 - dop holds copies of the same code.                          *)
(*                                                                         *)
(* A byte of a text is <<what it belongs to, value, place in it>>, so a    *)
(* text has its real length and the numbers in it can be read back; the    *)
(* letters are left out.                                                   *)
(***************************************************************************)
EXTENDS Integers, Sequences

CONSTANTS
  Word,      \* number of values of GetTickCount: 2^32, scaled
  Second     \* ticks in a second: 1000, scaled

ASSUME InfoAssumption ==
  /\ Word \in Nat \ {0} /\ (Word % 2) = 0
  /\ Second \in Nat \ {0}

NUL == <<"NUL", 0, 0>>

\* A piece of n bytes of a text.
Field(what, v, n) == [k \in 1..n |-> <<what, v, k>>]
Say(what, n)      == Field(what, 0, n)

\* The text strlen sees.
CString(b) ==
  LET ends == {i \in 1..Len(b) : b[i] = NUL}
  IN  IF ends = {} THEN b ELSE SubSeq(b, 1, (CHOOSE i \in ends : \A j \in ends : i <= j) - 1)

-----------------------------------------------------------------------------
(* Numbers.                                                                *)

\* An unsigned number stored in an int, and the division of C.
AsInt(n)   == IF n < Word \div 2 THEN n ELSE n - Word
Quot(a, b) == IF a >= 0 THEN a \div b ELSE -((-a) \div b)

\* %d
Width(n) ==
  LET m == IF n < 0 THEN -n ELSE n
      digits[x \in Nat] == IF x < 10 THEN 1 ELSE 1 + digits[x \div 10]
  IN  IF n < 0 THEN 1 + digits[m] ELSE digits[m]
Number(n) == Field("number", n, Width(n))

-----------------------------------------------------------------------------
(* Version and times.                                                      *)

\* The versions os_version_handler tells apart, newest first.
Versions == <<"win10", "win8", "win7SP1", "win7", "vistaSP2", "vistaSP1", "vista",
              "XPSP3", "XPSP2", "XPSP1", "XP">>
VersionLen == <<5, 4, 7, 4, 8, 8, 5, 5, 5, 5, 2>>

\* Version number v of the machine.  win10 is known by the major version of
\* RtlGetVersion, if ntdll has it; the others by the first Is...OrGreater.
os_version_handler(v, rtl) ==
  LET shown == IF v = 1 /\ ~rtl THEN 2 ELSE v
  IN  Say(Versions[shown], VersionLen[shown])

Two(n) == Field("number", n \div 10, 1) \o Field("number", n % 10, 1)

current_time_handler(t) ==
  Two(t.day) \o Say(".", 1) \o Two(t.month) \o Say(".", 1) \o Number(t.year)
    \o Say(" ", 1) \o Two(t.hour) \o Say(":", 1) \o Two(t.minute) \o Say(":", 1) \o Two(t.second)

\* Mutant: the minutes keep the hours.
os_time_Minutes(ticks) ==
  LET time_ticks == AsInt(ticks)
      hours   == Quot(time_ticks, Second * 60 * 60)
      minutes == Quot(time_ticks, Second * 60)
      seconds == Quot(time_ticks, Second) - (hours * 60 * 60) - minutes * 60
  IN  Number(hours) \o Say(" hours, ", 8) \o Number(minutes) \o Say(" minutes, ", 10)
        \o Number(seconds) \o Say(" seconds", 8)

os_time_handler(ticks) ==
  LET time_ticks == AsInt(ticks)
      hours   == Quot(time_ticks, Second * 60 * 60)
      minutes == Quot(time_ticks, Second * 60) - hours * 60
      seconds == Quot(time_ticks, Second) - (hours * 60 * 60) - minutes * 60
  IN  Number(hours) \o Say(" hours, ", 8) \o Number(minutes) \o Say(" minutes, ", 10)
        \o Number(seconds) \o Say(" seconds", 8)

-----------------------------------------------------------------------------
(* Memory.  w[1] is the number of digits of the load, w[2] .. w[7] of the   *)
(* six amounts; an amount in GB has one digit and three decimals.           *)

MemoryLine(label, w) ==
  Say("label", label) \o Say("number", w) \o Say(" Bytes, ", 8) \o Say("GB", 5) \o Say(" GB\n", 4)

memory_status_handler(w) ==
  Say("label", 12) \o Say("number", w[1]) \o Say("%\n", 2)
    \o MemoryLine(11, w[2]) \o MemoryLine(11, w[3]) \o MemoryLine(15, w[4])
    \o MemoryLine(15, w[5]) \o MemoryLine(14, w[6]) \o MemoryLine(14, w[7])

-----------------------------------------------------------------------------
(* Drives.                                                                  *)

\* What GetDriveType returns: DRIVE_NO_ROOT_DIR when the drive is gone,
\* DRIVE_REMOVABLE, DRIVE_FIXED, DRIVE_REMOTE, DRIVE_CDROM, DRIVE_RAMDISK.
NoRoot == 1
Fixed  == 3
DriveTypes == 2..6

\* disks_types, and the lengths of its names; entry 0 is the first.
disks_types == <<"removable", "fixed", "network", "CD-ROM">>
TypeNameLen == <<9, 5, 7, 6>>

\* disks_types[type].  Past its end lies other data of the program, as a text of
\* `past` bytes.
TypeName(type, past) ==
  IF type < 4 THEN Field(disks_types[type + 1], type, TypeNameLen[type + 1])
  ELSE Field("past the table", type, past)

\* One pass of the loop of disks_types_handler: drive l has the given type and
\* name_file_system holds the name `name`.
DriveRow(l, type, past, name) ==
  Field("drive", l, 2) \o Say("\n\t type: ", 9) \o TypeName(type, past)
    \o Say("\n\t file system: ", 16) \o name \o Say("\n", 1)

\* One pass of the loop of free_space_handler for a fixed drive whose number has
\* n characters: 13 bytes, six of them for the number.  gcvt ends it with NUL;
\* memcpy takes whatever follows.
FreeCell_Blanks(l, n) ==               \* Mutant: blanks after a short number.
  Field("drive", l, 2) \o Say(" ", 1)
    \o [k \in 1..6 |-> IF k <= n THEN <<"free", l, k>> ELSE <<" ", 0, k>>]
    \o Say(" Gb\n", 4)

FreeCell(l, n) ==
  Field("drive", l, 2) \o Say(" ", 1)
    \o [k \in 1..6 |-> IF k <= n THEN <<"free", l, k>>
                       ELSE IF k = n + 1 THEN NUL ELSE <<"rest", 0, k>>]
    \o Say(" Gb\n", 4)

-----------------------------------------------------------------------------
(* Files.                                                                  *)

\* The owner's name has n letters; when it could not be looked up it is "Max".
owner_handler(n) == Say("Owner: ", 7) \o (IF n = 0 THEN Say("Max", 3) ELSE Say("user", n))

\* The first entry of the access control list, for a user of n letters with a
\* SID of m and a mask of h; an account that cannot be looked up (n = 0), and a
\* list without entries, give nothing.
access_right_handler(n, m, h) ==
  IF n = 0 THEN <<>>
  ELSE Say("User: ", 6) \o Say("user", n) \o Say("\nSID: ", 6) \o Say("sid", m)
         \o Say("\nMask: ", 7) \o Say("mask", h)

=============================================================================
