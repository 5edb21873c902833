--------------------------- MODULE MCInfoService ---------------------------
EXTENDS InfoService

FixedDrive == [type |-> Fixed, fs |-> 4]
EmptyCdRom == [type |-> 5, fs |-> 0]
Stick      == [type |-> 2, fs |-> 5]
Share      == [type |-> 4, fs |-> 4]

SomeDrives == {FixedDrive, EmptyCdRom, Stick}
AllDrives  == SomeDrives \cup {Share}

\* Digits of the memory status of a machine with less than a gigabyte of some
\* kinds of memory and of one with more of all.
SmallAndLarge == {<<2, 9, 9, 10, 10, 10, 10>>, <<2, 10, 10, 10, 10, 10, 10>>}

=============================================================================
