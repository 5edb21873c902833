----------------------------- MODULE AtomicFiles -----------------------------
(***************************************************************************)
(* What the file server promises clients that keep out of each other's     *)
(* way: every command is one step.  A file is stored or fetched as a whole *)
(* when its length fits an int; an upload cut short by a fault leaves a    *)
(* beginning of the file behind, never a mixture of old and new.           *)
(***************************************************************************)
EXTENDS Naturals, Sequences

CONSTANTS Client, Path, Absent,
          Limit      \* lengths from here on do not fit

VARIABLES files, local

\* What arrives when f is sent.
Arrives(f) == {SubSeq(f, 1, n) : n \in IF Len(f) < Limit THEN {Len(f)} ELSE 0 .. Len(f)}

Prefixes(f) == {SubSeq(f, 1, n) : n \in 0 .. Len(f)}

Delete(p) ==
  /\ files[p] # Absent
  /\ files' = [files EXCEPT ![p] = Absent]
  /\ UNCHANGED local

Fetch(c, p) ==
  /\ files[p] # Absent
  /\ \E f \in Arrives(files[p]) : local' = [local EXCEPT ![c] = f]
  /\ UNCHANGED files

Put(c, p) ==
  /\ local[c] # Absent
  /\ \E f \in Arrives(local[c]) : files' = [files EXCEPT ![p] = f]
  /\ UNCHANGED local

\* The server ends, or its disk is full, before all is written: of some paths
\* only a beginning of what was to be stored is there.
Tear ==
  /\ files' = [p \in Path |-> files'[p]]
  /\ \A p \in Path :
       \/ files'[p] = files[p]
       \/ \E c \in Client : local[c] # Absent /\ files'[p] \in Prefixes(local[c])
  /\ UNCHANGED local

Next ==
  \/ \E p \in Path : Delete(p)
  \/ \E c \in Client, p \in Path : Fetch(c, p) \/ Put(c, p)
  \/ Tear

Spec == [][Next]_<<files, local>>

=============================================================================
